---- MODULE Spec2Model ----
(***************************************************************************)
(* Model of the rustfuck Brainfuck compiler (src/src/compile.rs) and       *)
(* bytecode interpreter (src/src/execute.rs), driven through               *)
(* Program::from_source and Program::run (src/src/lib.rs).                 *)
(*                                                                         *)
(* A source is a sequence of one-character strings (its bytes).  Byte      *)
(* offsets, the ops index, the data pointer and the instruction pointer    *)
(* are 0-based as in the code; TLA+ sequences are 1-based, so the element  *)
(* at offset k of a sequence q is q[k + 1].                                *)
(***************************************************************************)
EXTENDS Integers, Sequences, FiniteSets, TLC

VARIABLES
    source,      \* compile: the source bytes
    ops,         \* compile: Vec<Op>;   afterwards Program.ops
    spans,       \* compile: Vec<Span>; afterwards Program.spans
    loop_stack,  \* compile: Vec<(usize, Span)>
    i,           \* compile: byte offset of the next source byte
    line,        \* compile: line counter
    col,         \* compile: column counter
    cresult,     \* "compiling", or the value compile returned
    cerr,        \* span carried by the CompileError
    first_skip,  \* auxiliary: new_i of the first dead loop skipped, 0 if none
    args,        \* arguments of the Program::run call
    tape,        \* execute: tape
    pointer,     \* execute: pointer
    ip,          \* execute: ip
    opcount,     \* execute: opcount
    input,       \* execute: the input reader
    output,      \* execute: the output writer
    eresult,     \* "idle", "running", or the value execute returned
    eerr,        \* fields carried by the ExecutionError
    other,       \* a second execution of the same Program, while not scheduled
    alone,       \* auxiliary: what the first execution returned when run alone
    base,        \* auxiliary: what compile returned for the source before bytes
                 \* were inserted
    stdin,       \* run_batch: the lines of standard input
    lineno,      \* run_batch: number of lines taken from stdin.lock().lines()
    stdout,      \* run_batch: the response lines written
    pushed       \* the op handed to push_and_compact when it is called on its own

cvars == <<source, ops, spans, loop_stack, i, line, col, cresult, cerr, first_skip>>
evars == <<args, tape, pointer, ip, opcount, input, output, eresult, eerr>>
\* state outside the one compile and the one execution in progress
xvars == <<other, alone, base, stdin, lineno, stdout, pushed>>
vars == <<source, ops, spans, loop_stack, i, line, col, cresult, cerr, first_skip,
          args, tape, pointer, ip, opcount, input, output, eresult, eerr,
          other, alone, base, stdin, lineno, stdout, pushed>>

(***************************************************************************)
(* Bounds of the model.                                                    *)
(***************************************************************************)
\* longest free tail appended to a prelude in the compile specification
MaxLen == 3
\* longest enumerated command-only source in the run specification
MaxRunLen == 2
\* cap on the instructions one modelled execution may take
MaxSteps == 1200
\* config.tape_size used when the caller passes no tape
TapeSize == 3

(***************************************************************************)
(* Number widths.                                                          *)
(***************************************************************************)
ByteMod == 256
I32Max == 2147483647
I32Min == -2147483647 - 1

\* i32::checked_add returns None
CheckedAddFails(a, b) ==
    \/ (a > 0 /\ b > I32Max - a)
    \/ (a < 0 /\ b < I32Min - a)

(***************************************************************************)
(* Values: Op, Span.                                                       *)
(***************************************************************************)
Add(n) == [tag |-> "Add", a |-> n, b |-> 0]
Move(d) == [tag |-> "Move", a |-> d, b |-> 0]
Out == [tag |-> "Out", a |-> 0, b |-> 0]
In == [tag |-> "In", a |-> 0, b |-> 0]
Open(j) == [tag |-> "Open", a |-> j, b |-> 0]
Close(j) == [tag |-> "Close", a |-> j, b |-> 0]
Set(n) == [tag |-> "Set", a |-> n, b |-> 0]
Mul(off, f) == [tag |-> "Mul", a |-> off, b |-> f]
Scan(s) == [tag |-> "Scan", a |-> s, b |-> 0]

Span(s, e, l, c) == [start |-> s, end |-> e, line |-> l, col |-> c]
NoSpan == Span(0, 0, 0, 0)

Last(q) == q[Len(q)]
Front(q) == SubSeq(q, 1, Len(q) - 1)
Truncate(q, n) == SubSeq(q, 1, n)

\* s.end = span.end on the last span
ExtendEnd(s, span) == Front(s) \o <<[Last(s) EXCEPT !.end = span.end]>>

(***************************************************************************)
(* push_and_compact: the result is the pair (ops, spans) after the call.   *)
(***************************************************************************)
\* faulty variant: the sum is saturated into the tail
CheckedAddNone_Saturates(o, s, op, span) ==
    [ops |-> Front(o) \o <<Move(IF op.a > 0 THEN I32Max ELSE I32Min)>>,
     spans |-> ExtendEnd(s, span)]

\* Move + Move, the None arm of a.checked_add(b)
CheckedAddNone(o, s, op, span) ==
    [ops |-> Append(o, Move(op.a)), spans |-> Append(s, span)]

\* faulty variant: a wrapped sum of 0 is stored as Add(0) instead of popped
PushAndCompact_KeepZero(o, s, op, span) ==
    IF Len(o) > 0 /\ Len(s) > 0 /\ Last(o).tag = "Add" /\ op.tag = "Add" THEN
        LET sum == (Last(o).a + op.a) % ByteMod IN
        [ops |-> Front(o) \o <<Add(sum)>>, spans |-> ExtendEnd(s, span)]
    ELSE IF Len(o) > 0 /\ Len(s) > 0 /\ Last(o).tag = "Move" /\ op.tag = "Move" THEN
        IF CheckedAddFails(Last(o).a, op.a)
        THEN CheckedAddNone(o, s, op, span)
        ELSE LET sum == Last(o).a + op.a IN
             IF sum = 0
             THEN [ops |-> Front(o), spans |-> Front(s)]
             ELSE [ops |-> Front(o) \o <<Move(sum)>>, spans |-> ExtendEnd(s, span)]
    ELSE IF Len(o) > 0 /\ Len(s) > 0 /\ Last(o).tag = "Set" /\ op.tag = "Set" THEN
        [ops |-> Front(o) \o <<Set(op.a)>>, spans |-> ExtendEnd(s, span)]
    ELSE IF Len(o) > 0 /\ Len(s) > 0 /\ Last(o).tag = "Set" /\ op.tag = "Add" THEN
        [ops |-> Front(o) \o <<Set((Last(o).a + op.a) % ByteMod)>>,
         spans |-> ExtendEnd(s, span)]
    ELSE IF Len(o) > 0 /\ Len(s) > 0 /\ Last(o).tag = "Add" /\ op.tag = "Set" THEN
        [ops |-> Front(o) \o <<Set(op.a)>>, spans |-> ExtendEnd(s, span)]
    ELSE
        [ops |-> Append(o, op), spans |-> Append(s, span)]

PushAndCompact(o, s, op, span) ==
    IF Len(o) > 0 /\ Len(s) > 0 /\ Last(o).tag = "Add" /\ op.tag = "Add" THEN
        LET sum == (Last(o).a + op.a) % ByteMod IN
        IF sum = 0
        THEN [ops |-> Front(o), spans |-> Front(s)]
        ELSE [ops |-> Front(o) \o <<Add(sum)>>, spans |-> ExtendEnd(s, span)]
    ELSE IF Len(o) > 0 /\ Len(s) > 0 /\ Last(o).tag = "Move" /\ op.tag = "Move" THEN
        IF CheckedAddFails(Last(o).a, op.a)
        THEN CheckedAddNone(o, s, op, span)
        ELSE LET sum == Last(o).a + op.a IN
             IF sum = 0
             THEN [ops |-> Front(o), spans |-> Front(s)]
             ELSE [ops |-> Front(o) \o <<Move(sum)>>, spans |-> ExtendEnd(s, span)]
    ELSE IF Len(o) > 0 /\ Len(s) > 0 /\ Last(o).tag = "Set" /\ op.tag = "Set" THEN
        [ops |-> Front(o) \o <<Set(op.a)>>, spans |-> ExtendEnd(s, span)]
    ELSE IF Len(o) > 0 /\ Len(s) > 0 /\ Last(o).tag = "Set" /\ op.tag = "Add" THEN
        [ops |-> Front(o) \o <<Set((Last(o).a + op.a) % ByteMod)>>,
         spans |-> ExtendEnd(s, span)]
    ELSE IF Len(o) > 0 /\ Len(s) > 0 /\ Last(o).tag = "Add" /\ op.tag = "Set" THEN
        [ops |-> Front(o) \o <<Set(op.a)>>, spans |-> ExtendEnd(s, span)]
    ELSE
        [ops |-> Append(o, op), spans |-> Append(s, span)]

(***************************************************************************)
(* try_mul_loop: ok is FALSE for None; muls are the (offset, factor)       *)
(* pairs.  The i32 accumulation `offset += n` cannot overflow for the      *)
(* sources enumerated here.                                                *)
(***************************************************************************)
RECURSIVE MulLoopFrom(_, _, _, _, _)
MulLoopFrom(body, k, offset, muls, origin_delta) ==
    IF k > Len(body)
    THEN [ok |-> (offset = 0 /\ origin_delta = 255), muls |-> muls]
    ELSE IF body[k].tag = "Add"
    THEN IF offset = 0
         THEN MulLoopFrom(body, k + 1, offset, muls,
                          (origin_delta + body[k].a) % ByteMod)
         ELSE MulLoopFrom(body, k + 1, offset,
                          Append(muls, <<offset, body[k].a>>), origin_delta)
    ELSE IF body[k].tag = "Move"
    THEN MulLoopFrom(body, k + 1, offset + body[k].a, muls, origin_delta)
    ELSE [ok |-> FALSE, muls |-> <<>>]

\* faulty variant: the recognizer never matches
TryMulLoop_Never(body) == [ok |-> FALSE, muls |-> <<>>]

TryMulLoop(body) == MulLoopFrom(body, 1, 0, <<>>, 0)

(***************************************************************************)
(* skip_loop: (new position, lines skipped, final column offset).          *)
(***************************************************************************)
RECURSIVE SkipLoopFrom(_, _, _, _, _)
SkipLoopFrom(src, k, depth, lines, c) ==
    IF k < Len(src) /\ depth > 0
    THEN LET ch == src[k + 1] IN
         SkipLoopFrom(src, k + 1,
                      IF ch = "[" THEN depth + 1
                      ELSE IF ch = "]" THEN depth - 1 ELSE depth,
                      IF ch = "\n" THEN lines + 1 ELSE lines,
                      (IF ch = "\n" THEN 0 ELSE c) + 1)
    ELSE [i |-> k, lines |-> lines, col |-> c]

\* faulty variant: the skip stops at the first `]`, nesting not counted
RECURSIVE SkipFlatFrom(_, _, _, _)
SkipFlatFrom(src, k, lines, c) ==
    IF k >= Len(src) THEN [i |-> k, lines |-> lines, col |-> c]
    ELSE IF src[k + 1] = "]" THEN [i |-> k + 1, lines |-> lines, col |-> c + 1]
    ELSE SkipFlatFrom(src, k + 1,
                      IF src[k + 1] = "\n" THEN lines + 1 ELSE lines,
                      (IF src[k + 1] = "\n" THEN 0 ELSE c) + 1)

SkipLoop_NoNesting(src, start) == SkipFlatFrom(src, start, 0, 0)

SkipLoop(src, start) == SkipLoopFrom(src, start, 1, 0, 0)

(***************************************************************************)
(* compile, one action per arm of `match source[i]`.                       *)
(***************************************************************************)
Compiling == cresult = "compiling" /\ i < Len(source)
Cur == source[i + 1]
CurSpan == Span(i, i + 1, line, col)

\* the `i += 1; col += 1;` that follows the match (and precedes `continue`
\* in the loop-rewriting branches)
NextByte ==
    /\ i' = i + 1
    /\ col' = col + 1
    /\ UNCHANGED <<source, line, cresult, cerr, first_skip>>

\* faulty variant: the op is pushed without looking at the tail
CompileArith_NoCompact(op) ==
    /\ ops' = Append(ops, op)
    /\ spans' = Append(spans, CurSpan)
    /\ NextByte
    /\ UNCHANGED <<loop_stack>>
    /\ UNCHANGED <<evars, xvars>>

\* an arm that calls push_and_compact
CompileArith(op) ==
    /\ LET r == PushAndCompact(ops, spans, op, CurSpan) IN
       /\ ops' = r.ops
       /\ spans' = r.spans
    /\ NextByte
    /\ UNCHANGED <<loop_stack>>
    /\ UNCHANGED <<evars, xvars>>

Plus ==
    /\ Compiling
    /\ Cur = "+"
    /\ CompileArith(Add(1))

Minus ==
    /\ Compiling
    /\ Cur = "-"
    /\ CompileArith(Add(255))

Left ==
    /\ Compiling
    /\ Cur = "<"
    /\ CompileArith(Move(-1))

Right ==
    /\ Compiling
    /\ Cur = ">"
    /\ CompileArith(Move(1))

\* an arm that pushes without compaction
CompilePush(op) ==
    /\ ops' = Append(ops, op)
    /\ spans' = Append(spans, CurSpan)
    /\ NextByte
    /\ UNCHANGED <<loop_stack>>
    /\ UNCHANGED <<evars, xvars>>

Dot ==
    /\ Compiling
    /\ Cur = "."
    /\ CompilePush(Out)

Comma ==
    /\ Compiling
    /\ Cur = ","
    /\ CompilePush(In)

\* faulty variant: only a Set(0) tail makes the next loop dead
IsDead_OnlySet(o) ==
    /\ Len(o) > 0
    /\ Last(o) = Set(0)

IsDead(o) ==
    /\ Len(o) > 0
    /\ \/ Last(o) = Set(0)
       \/ Last(o).tag = "Close"
       \/ Last(o).tag = "Scan"

OpenDead ==
    /\ Compiling
    /\ Cur = "["
    /\ IsDead(ops)
    /\ LET r == SkipLoop(source, i + 1) IN
       /\ i' = r.i
       /\ line' = line + r.lines
       /\ col' = IF r.lines > 0 THEN r.col ELSE col + r.col
       /\ first_skip' = IF first_skip = 0 THEN r.i ELSE first_skip
    /\ UNCHANGED <<source, ops, spans, loop_stack, cresult, cerr>>
    /\ UNCHANGED <<evars, xvars>>

\* faulty variant: the index is recorded after the placeholder is pushed
OpenLive_IndexAfterPush ==
    /\ Compiling
    /\ Cur = "["
    /\ ~IsDead(ops)
    /\ loop_stack' = Append(loop_stack, [index |-> Len(ops) + 1, span |-> CurSpan])
    /\ ops' = Append(ops, Open(0))
    /\ spans' = Append(spans, CurSpan)
    /\ NextByte
    /\ UNCHANGED <<evars, xvars>>

OpenLive ==
    /\ Compiling
    /\ Cur = "["
    /\ ~IsDead(ops)
    /\ loop_stack' = Append(loop_stack, [index |-> Len(ops), span |-> CurSpan])
    /\ ops' = Append(ops, Open(0))
    /\ spans' = Append(spans, CurSpan)
    /\ NextByte
    /\ UNCHANGED <<evars, xvars>>

\* the locals of the `]` arm
LoopStart == Last(loop_stack).index
LoopSpan == Span(Last(loop_stack).span.start, i + 1,
                 Last(loop_stack).span.line, Last(loop_stack).span.col)
LoopBody == SubSeq(ops, LoopStart + 2, Len(ops))

\* faulty variant: only single-step scan loops are recognized
IsScanBody_UnitOnly ==
    /\ Len(ops) = LoopStart + 2
    /\ Last(ops) \in {Move(1), Move(-1)}

IsScanBody == Len(ops) = LoopStart + 2 /\ Last(ops).tag = "Move"

\* faulty variant: the parity of the single Add is not looked at
IsClearBody_AnyAdd == Len(ops) = LoopStart + 2 /\ Last(ops).tag = "Add"

IsClearBody == Len(ops) = LoopStart + 2 /\ Last(ops).tag = "Add" /\ Last(ops).a % 2 = 1

CloseUnmatched ==
    /\ Compiling
    /\ Cur = "]"
    /\ Len(loop_stack) = 0
    /\ cresult' = "UnmatchedClose"
    /\ cerr' = CurSpan
    /\ UNCHANGED <<source, ops, spans, loop_stack, i, line, col, first_skip>>
    /\ UNCHANGED <<evars, xvars>>

\* faulty variant: the multiplications are pushed last-to-first
RECURSIVE PushMuls_Reversed(_, _, _, _)
PushMuls_Reversed(o, muls, k, unused) ==
    IF k > Len(muls) THEN o
    ELSE PushMuls_Reversed(Append(o, Mul(muls[Len(muls) + 1 - k][1],
                                         muls[Len(muls) + 1 - k][2])),
                           muls, k + 1, unused)

RECURSIVE PushMuls(_, _, _, _)
PushMuls(o, muls, k, unused) ==
    IF k > Len(muls) THEN o
    ELSE PushMuls(Append(o, Mul(muls[k][1], muls[k][2])), muls, k + 1, unused)

\* faulty variant: the Set(0) is pushed before the multiplications
CloseMul_SetFirst ==
    /\ Compiling
    /\ Cur = "]"
    /\ Len(loop_stack) > 0
    /\ TryMulLoop(LoopBody).ok
    /\ LET muls == TryMulLoop(LoopBody).muls
           r == PushAndCompact(Truncate(ops, LoopStart), Truncate(spans, LoopStart),
                               Set(0), LoopSpan)
       IN /\ ops' = PushMuls(r.ops, muls, 1, 0)
          /\ spans' = r.spans \o [k \in 1..Len(muls) |-> LoopSpan]
    /\ loop_stack' = Front(loop_stack)
    /\ NextByte
    /\ UNCHANGED <<evars, xvars>>

CloseMul ==
    /\ Compiling
    /\ Cur = "]"
    /\ Len(loop_stack) > 0
    /\ TryMulLoop(LoopBody).ok
    /\ LET muls == TryMulLoop(LoopBody).muls
           o1 == PushMuls(Truncate(ops, LoopStart), muls, 1, 0)
           s1 == Truncate(spans, LoopStart) \o [k \in 1..Len(muls) |-> LoopSpan]
           r == PushAndCompact(o1, s1, Set(0), LoopSpan)
       IN /\ ops' = r.ops
          /\ spans' = r.spans
    /\ loop_stack' = Front(loop_stack)
    /\ NextByte
    /\ UNCHANGED <<evars, xvars>>

\* faulty variant: only one span is popped for the two ops popped
CloseScan_OneSpanPop ==
    /\ Compiling
    /\ Cur = "]"
    /\ Len(loop_stack) > 0
    /\ ~TryMulLoop(LoopBody).ok
    /\ IsScanBody
    /\ ops' = Append(Front(Front(ops)), Scan(Last(ops).a))
    /\ spans' = Append(Front(spans), LoopSpan)
    /\ loop_stack' = Front(loop_stack)
    /\ NextByte
    /\ UNCHANGED <<evars, xvars>>

CloseScan ==
    /\ Compiling
    /\ Cur = "]"
    /\ Len(loop_stack) > 0
    /\ ~TryMulLoop(LoopBody).ok
    /\ IsScanBody
    /\ ops' = Append(Front(Front(ops)), Scan(Last(ops).a))
    /\ spans' = Append(Front(Front(spans)), LoopSpan)
    /\ loop_stack' = Front(loop_stack)
    /\ NextByte
    /\ UNCHANGED <<evars, xvars>>

CloseClear ==
    /\ Compiling
    /\ Cur = "]"
    /\ Len(loop_stack) > 0
    /\ ~TryMulLoop(LoopBody).ok
    /\ ~IsScanBody
    /\ IsClearBody
    /\ LET r == PushAndCompact(Front(Front(ops)), Front(Front(spans)), Set(0), LoopSpan)
       IN /\ ops' = r.ops
          /\ spans' = r.spans
    /\ loop_stack' = Front(loop_stack)
    /\ NextByte
    /\ UNCHANGED <<evars, xvars>>

\* faulty variant: Open is patched to the index after the Close
CloseGeneral_TargetPastClose ==
    /\ Compiling
    /\ Cur = "]"
    /\ Len(loop_stack) > 0
    /\ ~TryMulLoop(LoopBody).ok
    /\ ~IsScanBody
    /\ ~IsClearBody
    /\ LET end == Len(ops) + 1 IN
       ops' = Append([ops EXCEPT ![LoopStart + 1] = Open(end)], Close(LoopStart))
    /\ spans' = Append(spans, LoopSpan)
    /\ loop_stack' = Front(loop_stack)
    /\ NextByte
    /\ UNCHANGED <<evars, xvars>>

CloseGeneral ==
    /\ Compiling
    /\ Cur = "]"
    /\ Len(loop_stack) > 0
    /\ ~TryMulLoop(LoopBody).ok
    /\ ~IsScanBody
    /\ ~IsClearBody
    /\ LET end == Len(ops) IN
       ops' = Append([ops EXCEPT ![LoopStart + 1] = Open(end)], Close(LoopStart))
    /\ spans' = Append(spans, LoopSpan)
    /\ loop_stack' = Front(loop_stack)
    /\ NextByte
    /\ UNCHANGED <<evars, xvars>>

\* faulty variant: the newline arm sets col to 1 before the common increment
Newline_ColOne ==
    /\ Compiling
    /\ Cur = "\n"
    /\ line' = line + 1
    /\ i' = i + 1
    /\ col' = 1 + 1
    /\ UNCHANGED <<source, ops, spans, loop_stack, cresult, cerr, first_skip>>
    /\ UNCHANGED <<evars, xvars>>

Newline ==
    /\ Compiling
    /\ Cur = "\n"
    /\ line' = line + 1
    /\ i' = i + 1
    /\ col' = 0 + 1
    /\ UNCHANGED <<source, ops, spans, loop_stack, cresult, cerr, first_skip>>
    /\ UNCHANGED <<evars, xvars>>

Commands == {"+", "-", "<", ">", ".", ",", "[", "]"}

\* faulty variant: an ignored byte is pushed as an Add(0)
Ignored_PushesNop ==
    /\ Compiling
    /\ Cur \notin Commands \cup {"\n"}
    /\ CompileArith(Add(0))

Ignored ==
    /\ Compiling
    /\ Cur \notin Commands \cup {"\n"}
    /\ NextByte
    /\ UNCHANGED <<ops, spans, loop_stack>>
    /\ UNCHANGED <<evars, xvars>>

\* faulty variant: the span of the outermost pending loop is reported
FinishUnmatchedOpen_First ==
    /\ cresult = "compiling"
    /\ i >= Len(source)
    /\ Len(loop_stack) > 0
    /\ cresult' = "UnmatchedOpen"
    /\ cerr' = loop_stack[1].span
    /\ loop_stack' = Front(loop_stack)
    /\ UNCHANGED <<source, ops, spans, i, line, col, first_skip>>
    /\ UNCHANGED <<evars, xvars>>

\* the terminal check after the while loop
FinishUnmatchedOpen ==
    /\ cresult = "compiling"
    /\ i >= Len(source)
    /\ Len(loop_stack) > 0
    /\ cresult' = "UnmatchedOpen"
    /\ cerr' = Last(loop_stack).span
    /\ loop_stack' = Front(loop_stack)
    /\ UNCHANGED <<source, ops, spans, i, line, col, first_skip>>
    /\ UNCHANGED <<evars, xvars>>

FinishOk ==
    /\ cresult = "compiling"
    /\ i >= Len(source)
    /\ Len(loop_stack) = 0
    /\ cresult' = "Ok"
    /\ UNCHANGED <<source, ops, spans, loop_stack, i, line, col, cerr, first_skip>>
    /\ UNCHANGED <<evars, xvars>>

(***************************************************************************)
(* Sources.                                                                *)
(***************************************************************************)
Alphabet == Commands \cup {"\n", "x"}

SeqsUpTo(S, n) == UNION {[1..m -> S] : m \in 0..n}

\* Partial programs the free tails are appended to: they bring the
\* compiler to the tails Set(0), Scan, Close, an open loop, open
\* multiplication bodies, an open scan body and an open single-Add body.
Preludes ==
    { <<>>,
      <<"[", "-", "]">>,
      <<",", "[", ">", "]">>,
      <<",", "[", ".", "]">>,
      <<",", "[", "-", ">", "+">>,
      <<"+", "\n", "[", ".">>,
      <<"[", "-", "]", "[", "\n">>,
      <<"[", "-", ">", "+", ">", "-", "<", "-">>,
      <<"[", "<">>,
      <<",", "[", "+", "]", ",", "[", "+">> }

CompileSources == {p \o t : p \in Preludes, t \in SeqsUpTo(Alphabet, MaxLen)}

InitExec ==
    /\ args = [config |-> [tape_size |-> TapeSize,
                           op_limit |-> [some |-> FALSE, v |-> 0],
                           eof_behavior |-> "Zero",
                           flush_output |-> TRUE],
               tape |-> [some |-> FALSE, v |-> <<>>],
               pointer |-> [some |-> FALSE, v |-> 0],
               input |-> [kind |-> "none", data |-> <<>>],
               output |-> [kind |-> "none", data |-> <<>>, flushes |-> 0]]
    /\ tape = <<>>
    /\ pointer = 0
    /\ ip = 0
    /\ opcount = 0
    /\ input = [kind |-> "none", data |-> <<>>]
    /\ output = [kind |-> "none", data |-> <<>>, flushes |-> 0]
    /\ eresult = "idle"
    /\ eerr = [span |-> NoSpan, pointer |-> 0, tape_len |-> 0]

\* no second execution, no second compile
InitNoSecond ==
    /\ other = [id |-> 0, args |-> args, tape |-> tape, pointer |-> pointer,
                ip |-> ip, opcount |-> opcount, input |-> input,
                output |-> output, eresult |-> eresult, eerr |-> eerr]
    /\ alone = [phase |-> "single", run |-> other]
    /\ base = [phase |-> "base", source |-> <<>>, ops |-> <<>>, cresult |-> "compiling"]
    /\ pushed = [tag |-> "none", a |-> 0, b |-> 0]

\* one compile, one execution, no batch
InitSingle ==
    /\ InitNoSecond
    /\ stdin = <<>>
    /\ lineno = 0
    /\ stdout = <<>>

InitCompileOf(S) ==
    /\ source \in S
    /\ ops = <<>>
    /\ spans = <<>>
    /\ loop_stack = <<>>
    /\ i = 0
    /\ line = 1
    /\ col = 1
    /\ cresult = "compiling"
    /\ cerr = NoSpan
    /\ first_skip = 0

InitCompile == InitCompileOf(CompileSources) /\ InitExec /\ InitSingle

NextCompile ==
    \/ Plus
    \/ Minus
    \/ Left
    \/ Right
    \/ Dot
    \/ Comma
    \/ OpenDead
    \/ OpenLive
    \/ CloseUnmatched
    \/ CloseMul
    \/ CloseScan
    \/ CloseClear
    \/ CloseGeneral
    \/ Newline
    \/ Ignored
    \/ FinishUnmatchedOpen
    \/ FinishOk

SpecCompile == InitCompile /\ [][NextCompile]_vars

(***************************************************************************)
(* Program::run: the caller chooses the configuration, the initial tape    *)
(* and pointer and the streams; execute starts with ip = 0, opcount = 0.   *)
(* One run per compiled program is modelled; a Program is immutable, so a  *)
(* further run would start from the same ops and spans.                    *)
(***************************************************************************)
None == [some |-> FALSE, v |-> 0]
Some(x) == [some |-> TRUE, v |-> x]
NoTape == [some |-> FALSE, v |-> <<>>]

\* readers: absent, a byte slice, a reader whose read fails
NoInput == [kind |-> "none", data |-> <<>>]
Bytes(d) == [kind |-> "bytes", data |-> d]
FailingReader == [kind |-> "failing", data |-> <<>>]
\* writers: absent, a Vec<u8>, a writer whose write fails, a writer whose
\* flush fails after a write
NoOutput == [kind |-> "none", data |-> <<>>, flushes |-> 0]
VecWriter == [kind |-> "vec", data |-> <<>>, flushes |-> 0]
FailingWriter == [kind |-> "failing", data |-> <<>>, flushes |-> 0]
WriteOkFlushFails == [kind |-> "flushfails", data |-> <<>>, flushes |-> 0]

\* (tape, pointer) arguments
Starts ==
    { <<NoTape, None>>,
      <<Some(<<10, 0>>), Some(0)>>,
      <<Some(<<1, 2, 0>>), Some(1)>>,
      <<Some(<<3, 1, 2, 4>>), Some(2)>>,
      <<Some(<<0, 0, 0, 0, 0>>), Some(0)>>,
      <<Some(<<5, 0>>), Some(2)>> }

Limits == {None, Some(0), Some(1), Some(2), Some(3), Some(30), Some(100)}

\* (input, output, eof_behavior, flush_output)
Streams ==
    { <<NoInput, NoOutput, "Zero", TRUE>>,
      <<Bytes(<<65>>), VecWriter, "Zero", TRUE>>,
      <<Bytes(<<>>), VecWriter, "MaxValue", FALSE>>,
      <<Bytes(<<>>), VecWriter, "Unchanged", TRUE>>,
      <<FailingReader, FailingWriter, "Zero", TRUE>>,
      <<Bytes(<<65>>), WriteOkFlushFails, "Zero", TRUE>>,
      <<Bytes(<<65>>), WriteOkFlushFails, "Zero", FALSE>>,
      <<Bytes(<<66, 67>>), VecWriter, "Unchanged", TRUE>>,
      <<NoInput, NoOutput, "MaxValue", TRUE>> }

RunCases ==
    { [config |-> [tape_size |-> TapeSize, op_limit |-> l,
                   eof_behavior |-> st[3], flush_output |-> st[4]],
       tape |-> s[1], pointer |-> s[2], input |-> st[1], output |-> st[2]]
      : s \in Starts, l \in Limits, st \in Streams }

ZeroTape(n) == [k \in 1..n |-> 0]

Run ==
    /\ cresult = "Ok"
    /\ eresult = "idle"
    /\ \E c \in RunCases :
        /\ args' = c
        /\ tape' = IF c.tape.some THEN c.tape.v ELSE ZeroTape(c.config.tape_size)
        /\ pointer' = IF c.pointer.some THEN c.pointer.v ELSE 0
        /\ input' = c.input
        /\ output' = c.output
    /\ ip' = 0
    /\ opcount' = 0
    /\ eresult' = "running"
    /\ UNCHANGED eerr
    /\ UNCHANGED <<cvars, xvars>>

(***************************************************************************)
(* execute, one action per arm of `match &ops[ip]`.                        *)
(***************************************************************************)
Executing == eresult = "running" /\ ip < Len(ops) /\ opcount < MaxSteps
CurOp == ops[ip + 1]
CurOpSpan == spans[ip + 1]
TapeLen == Len(tape)
OpLimit == args.config.op_limit

\* faulty variant: the comparison is `opcount >= op_limit`
OverLimit_Inclusive(n) == OpLimit.some /\ n >= OpLimit.v

\* `opcount > op_limit`, op_limit being usize::MAX when config.op_limit is None
OverLimit(n) == OpLimit.some /\ n > OpLimit.v

\* faulty variant: an instruction that jumps is not counted
Advance_JumpsFree(target) ==
    /\ ip' = target + 1
    /\ opcount' = IF target = ip THEN opcount + 1 ELSE opcount
    /\ IF target = ip /\ OverLimit(opcount + 1)
       THEN /\ eresult' = "OperationLimit"
            /\ eerr' = [span |-> CurOpSpan, pointer |-> 0, tape_len |-> 0]
       ELSE UNCHANGED <<eresult, eerr>>

\* `ip += 1; opcount += 1; if opcount > op_limit { return Err(OperationLimit) }`
\* with target the value of ip left by the instruction
Advance(target) ==
    /\ ip' = target + 1
    /\ opcount' = opcount + 1
    /\ IF OverLimit(opcount + 1)
       THEN /\ eresult' = "OperationLimit"
            /\ eerr' = [span |-> CurOpSpan, pointer |-> 0, tape_len |-> 0]
       ELSE UNCHANGED <<eresult, eerr>>

\* `return Err(..)` from inside the match
Fail(kind, p, n) ==
    /\ eresult' = kind
    /\ eerr' = [span |-> CurOpSpan, pointer |-> p, tape_len |-> n]
    /\ UNCHANGED <<ip, opcount>>

\* an out-of-bounds tape index panics
Panic ==
    /\ eresult' = "Panic"
    /\ UNCHANGED <<tape, pointer, ip, opcount, input, output, eerr>>

ExecAdd ==
    /\ Executing
    /\ CurOp.tag = "Add"
    /\ IF pointer < TapeLen
       THEN /\ tape' = [tape EXCEPT ![pointer + 1] = (@ + CurOp.a) % ByteMod]
            /\ Advance(ip)
            /\ UNCHANGED <<pointer, input, output>>
       ELSE Panic
    /\ UNCHANGED <<args>>
    /\ UNCHANGED <<cvars, xvars>>

\* the bounds check shared by Move and Mul on new = p + d
Checked(p, d, n) ==
    LET new == p + d IN
    IF new < 0 THEN [kind |-> "PointerUnderflow", pointer |-> 0]
    ELSE IF new >= n THEN [kind |-> "PointerOverflow", pointer |-> new]
    ELSE [kind |-> "ok", pointer |-> new]

\* faulty variant: Move without the upper bounds check
MoveTo_NoUpperCheck(p, d, n) ==
    LET new == p + d IN
    IF new < 0 THEN [kind |-> "PointerUnderflow", pointer |-> 0]
    ELSE [kind |-> "ok", pointer |-> new]

MoveTo(p, d, n) == Checked(p, d, n)

ExecMove ==
    /\ Executing
    /\ CurOp.tag = "Move"
    /\ LET r == MoveTo(pointer, CurOp.a, TapeLen) IN
       IF r.kind = "ok"
       THEN /\ pointer' = r.pointer
            /\ Advance(ip)
       ELSE /\ Fail(r.kind, r.pointer, IF r.kind = "PointerOverflow" THEN TapeLen ELSE 0)
            /\ UNCHANGED pointer
    /\ UNCHANGED <<args, tape, input, output>>
    /\ UNCHANGED <<cvars, xvars>>

ExecSet ==
    /\ Executing
    /\ CurOp.tag = "Set"
    /\ IF pointer < TapeLen
       THEN /\ tape' = [tape EXCEPT ![pointer + 1] = CurOp.a]
            /\ Advance(ip)
            /\ UNCHANGED <<pointer, input, output>>
       ELSE Panic
    /\ UNCHANGED <<args>>
    /\ UNCHANGED <<cvars, xvars>>

\* faulty variant: Mul without the `target < 0` check, a negative target
\* then fails the upper check after the cast
MulTarget_NoLowerCheck(p, off, n) ==
    LET new == p + off IN
    IF new < 0 \/ new >= n THEN [kind |-> "PointerOverflow", pointer |-> new]
    ELSE [kind |-> "ok", pointer |-> new]

MulTarget(p, off, n) == Checked(p, off, n)

ExecMul ==
    /\ Executing
    /\ CurOp.tag = "Mul"
    /\ LET r == MulTarget(pointer, CurOp.a, TapeLen) IN
       IF r.kind = "ok"
       THEN IF pointer < TapeLen
            THEN /\ tape' = [tape EXCEPT ![r.pointer + 1] =
                                (@ + ((tape[pointer + 1] * CurOp.b) % ByteMod)) % ByteMod]
                 /\ Advance(ip)
                 /\ UNCHANGED <<pointer, input, output>>
            ELSE Panic
       ELSE /\ Fail(r.kind, r.pointer, IF r.kind = "PointerOverflow" THEN TapeLen ELSE 0)
            /\ UNCHANGED <<tape, pointer, input, output>>
    /\ UNCHANGED <<args>>
    /\ UNCHANGED <<cvars, xvars>>

\* faulty variant: a skipped loop resumes at its Close, not after it
ExecOpen_LandOnClose ==
    /\ Executing
    /\ CurOp.tag = "Open"
    /\ IF pointer < TapeLen
       THEN /\ Advance(IF tape[pointer + 1] = 0 THEN CurOp.a - 1 ELSE ip)
            /\ UNCHANGED <<tape, pointer, input, output>>
       ELSE Panic
    /\ UNCHANGED <<args>>
    /\ UNCHANGED <<cvars, xvars>>

ExecOpen ==
    /\ Executing
    /\ CurOp.tag = "Open"
    /\ IF pointer < TapeLen
       THEN /\ Advance(IF tape[pointer + 1] = 0 THEN CurOp.a ELSE ip)
            /\ UNCHANGED <<tape, pointer, input, output>>
       ELSE Panic
    /\ UNCHANGED <<args>>
    /\ UNCHANGED <<cvars, xvars>>

\* faulty variant: Close jumps back when the cell is zero
ExecClose_JumpOnZero ==
    /\ Executing
    /\ CurOp.tag = "Close"
    /\ IF pointer < TapeLen
       THEN /\ Advance(IF tape[pointer + 1] = 0 THEN CurOp.a ELSE ip)
            /\ UNCHANGED <<tape, pointer, input, output>>
       ELSE Panic
    /\ UNCHANGED <<args>>
    /\ UNCHANGED <<cvars, xvars>>

ExecClose ==
    /\ Executing
    /\ CurOp.tag = "Close"
    /\ IF pointer < TapeLen
       THEN /\ Advance(IF tape[pointer + 1] # 0 THEN CurOp.a ELSE ip)
            /\ UNCHANGED <<tape, pointer, input, output>>
       ELSE Panic
    /\ UNCHANGED <<args>>
    /\ UNCHANGED <<cvars, xvars>>

(***************************************************************************)
(* Scan: the pointer the four branches compute, or the error they return.  *)
(* `(-*step) as usize` cannot overflow for the strides compiled here.      *)
(***************************************************************************)
MinOf(S) == CHOOSE x \in S : \A y \in S : x <= y
MaxOf(S) == CHOOSE x \in S : \A y \in S : x >= y

\* faulty variant: the forward scan visits every cell, not every step-th
RECURSIVE ScanForward_UnitStep(_, _, _)
ScanForward_UnitStep(t, p, step) ==
    IF p < Len(t) /\ t[p + 1] # 0 THEN ScanForward_UnitStep(t, p + 1, step) ELSE p

\* `while p < tape_len && tape[p] != 0 { p += step }`
RECURSIVE ScanForward(_, _, _)
ScanForward(t, p, step) ==
    IF p < Len(t) /\ t[p + 1] # 0 THEN ScanForward(t, p + step, step) ELSE p

\* `while tape[p] != 0 { if p < step { return Err(..) } p -= step }`
RECURSIVE ScanBackward(_, _, _)
ScanBackward(t, p, step) ==
    IF p >= Len(t) THEN [kind |-> "Panic", pointer |-> p]
    ELSE IF t[p + 1] = 0 THEN [kind |-> "ok", pointer |-> p]
    ELSE IF p < step THEN [kind |-> "PointerUnderflow", pointer |-> 0]
    ELSE IF step = 0 THEN [kind |-> "Hang", pointer |-> p]
    ELSE ScanBackward(t, p - step, step)

ScanTo(t, p, step) ==
    IF step = 1 THEN
        \* memchr(0, &tape[pointer..])
        IF p > Len(t) THEN [kind |-> "Panic", pointer |-> p]
        ELSE LET zs == {k \in p..(Len(t) - 1) : t[k + 1] = 0} IN
             IF zs = {} THEN [kind |-> "PointerOverflow", pointer |-> Len(t)]
             ELSE [kind |-> "ok", pointer |-> MinOf(zs)]
    ELSE IF step = -1 THEN
        \* memrchr(0, &tape[..=pointer])
        IF p >= Len(t) THEN [kind |-> "Panic", pointer |-> p]
        ELSE LET zs == {k \in 0..p : t[k + 1] = 0} IN
             IF zs = {} THEN [kind |-> "PointerUnderflow", pointer |-> 0]
             ELSE [kind |-> "ok", pointer |-> MaxOf(zs)]
    ELSE IF step > 0 THEN
        LET q == ScanForward(t, p, step) IN
        IF q >= Len(t) THEN [kind |-> "PointerOverflow", pointer |-> q]
        ELSE [kind |-> "ok", pointer |-> q]
    ELSE ScanBackward(t, p, -step)

\* the outcomes of the Scan arm.  For step = i32::MIN the negation in
\* `(-*step) as usize` overflows: a build with overflow checks panics, a
\* build without them wraps to i32::MIN, which the cast turns into a
\* stride larger than any pointer
ScanOutcomes(t, p, step) ==
    IF step = I32Min
    THEN { [kind |-> "Panic", pointer |-> p],
           IF p >= Len(t) THEN [kind |-> "Panic", pointer |-> p]
           ELSE IF t[p + 1] = 0 THEN [kind |-> "ok", pointer |-> p]
           ELSE [kind |-> "PointerUnderflow", pointer |-> 0] }
    ELSE {ScanTo(t, p, step)}

ExecScan ==
    /\ Executing
    /\ CurOp.tag = "Scan"
    /\ \E r \in ScanOutcomes(tape, pointer, CurOp.a) :
       IF r.kind = "ok"
       THEN /\ pointer' = r.pointer
            /\ Advance(ip)
       ELSE IF r.kind \in {"Panic", "Hang"}
       THEN /\ eresult' = r.kind
            /\ UNCHANGED <<pointer, ip, opcount, eerr>>
       ELSE /\ Fail(r.kind, r.pointer, IF r.kind = "PointerOverflow" THEN TapeLen ELSE 0)
            /\ UNCHANGED pointer
    /\ UNCHANGED <<args, tape, input, output>>
    /\ UNCHANGED <<cvars, xvars>>

\* faulty variant: an absent reader is treated as an exhausted one
InputAbsent_Never == FALSE

\* `if let Some(ref mut inp) = input` does not match
InputAbsent == input.kind = "none"

\* faulty variant: every EOF policy writes 0
EofByte_AlwaysZero(behavior) == 0

\* the byte EofBehavior::Zero / EofBehavior::MaxValue store at EOF
EofByte(behavior) == IF behavior = "Zero" THEN 0 ELSE 255

ExecIn ==
    /\ Executing
    /\ CurOp.tag = "In"
    /\ IF InputAbsent THEN
            /\ Advance(ip)
            /\ UNCHANGED <<tape, pointer, input, output>>
       ELSE IF input.kind = "failing" THEN
            /\ Fail("IoError", 0, 0)
            /\ UNCHANGED <<tape, pointer, input, output>>
       ELSE IF input.data = <<>> THEN
            \* Ok(0): EOF reached
            IF args.config.eof_behavior = "Unchanged" THEN
                /\ Advance(ip)
                /\ UNCHANGED <<tape, pointer, input, output>>
            ELSE IF pointer < TapeLen THEN
                /\ tape' = [tape EXCEPT ![pointer + 1] =
                              EofByte(args.config.eof_behavior)]
                /\ Advance(ip)
                /\ UNCHANGED <<pointer, input, output>>
            ELSE Panic
       ELSE
            \* Ok(_): one byte was read
            /\ input' = [input EXCEPT !.data = Tail(@)]
            /\ IF pointer < TapeLen
               THEN /\ tape' = [tape EXCEPT ![pointer + 1] = Head(input.data)]
                    /\ Advance(ip)
               ELSE /\ eresult' = "Panic"
                    /\ UNCHANGED <<tape, ip, opcount, eerr>>
            /\ UNCHANGED <<pointer, output>>
    /\ UNCHANGED <<args>>
    /\ UNCHANGED <<cvars, xvars>>

\* faulty variant: the flush does not look at config.flush_output
ExecOut_AlwaysFlush ==
    /\ Executing
    /\ CurOp.tag = "Out"
    /\ IF output.kind = "none" THEN
            /\ Advance(ip)
            /\ UNCHANGED <<tape, pointer, input, output>>
       ELSE IF pointer >= TapeLen THEN Panic
       ELSE IF output.kind = "failing" THEN
            /\ Fail("IoError", 0, 0)
            /\ UNCHANGED <<tape, pointer, input, output>>
       ELSE LET written == Append(output.data, tape[pointer + 1]) IN
            IF FALSE THEN
                /\ output' = [output EXCEPT !.data = written]
                /\ Advance(ip)
                /\ UNCHANGED <<tape, pointer, input>>
            ELSE IF output.kind = "flushfails" THEN
                /\ output' = [output EXCEPT !.data = written]
                /\ Fail("IoError", 0, 0)
                /\ UNCHANGED <<tape, pointer, input>>
            ELSE
                /\ output' = [output EXCEPT !.data = written, !.flushes = @ + 1]
                /\ Advance(ip)
                /\ UNCHANGED <<tape, pointer, input>>
    /\ UNCHANGED <<args>>
    /\ UNCHANGED <<cvars, xvars>>

ExecOut ==
    /\ Executing
    /\ CurOp.tag = "Out"
    /\ IF output.kind = "none" THEN
            /\ Advance(ip)
            /\ UNCHANGED <<tape, pointer, input, output>>
       ELSE IF pointer >= TapeLen THEN Panic
       ELSE IF output.kind = "failing" THEN
            /\ Fail("IoError", 0, 0)
            /\ UNCHANGED <<tape, pointer, input, output>>
       ELSE LET written == Append(output.data, tape[pointer + 1]) IN
            IF ~args.config.flush_output THEN
                /\ output' = [output EXCEPT !.data = written]
                /\ Advance(ip)
                /\ UNCHANGED <<tape, pointer, input>>
            ELSE IF output.kind = "flushfails" THEN
                /\ output' = [output EXCEPT !.data = written]
                /\ Fail("IoError", 0, 0)
                /\ UNCHANGED <<tape, pointer, input>>
            ELSE
                /\ output' = [output EXCEPT !.data = written, !.flushes = @ + 1]
                /\ Advance(ip)
                /\ UNCHANGED <<tape, pointer, input>>
    /\ UNCHANGED <<args>>
    /\ UNCHANGED <<cvars, xvars>>

\* the while loop ends: Ok(ExecutionResult { tape, pointer })
ExecFinish ==
    /\ eresult = "running"
    /\ ip >= Len(ops)
    /\ eresult' = "Ok"
    /\ UNCHANGED <<args, tape, pointer, ip, opcount, input, output, eerr>>
    /\ UNCHANGED <<cvars, xvars>>

(***************************************************************************)
(* Sources of the run specification: the sources of the repository's       *)
(* tests and of the documented scenarios, a few more that reach every      *)
(* interpreter branch on the small tapes, and every command-only source    *)
(* up to MaxRunLen bytes.                                                  *)
(***************************************************************************)
SrcBasic == <<",", "[", "+", ">", "-", ".", "<", "]">>
SrcCopy == <<"[", "-", ">", "+", "<", "]">>

TestSources ==
    { SrcBasic,
      SrcCopy,
      <<"[", "-", "<", "-", ">", "]">>,
      <<",", "[", "-", "]", ">", "<", "+", "+", "+", "+", "+", "+", "+", "+", "+", "+">>,
      <<",", "[", "-", ">", ">", "+", "+", ">", "+", "+", "+", ">", "+", "<", "<", "<", "<", "]">>,
      <<",", "[", ">", "]", ",", "[", "<", "]", ",", "[", ">", ">", "]", ",", "[", "<", "<", "<", "]">>,
      <<",", "[", "-", "]", "[", ">", ">", ">", "+", ">", "]">>,
      <<",", "[", "+", "+", "]", ",", "[", "+", "+", "+", "]">>,
      <<",", ".">>,
      <<"+", "+", "\n", ">", ">", "]">>,
      <<",", "\n", "\n", "[", "+">>,
      <<"+", "x", "[", ".", "-", "]">>,
      <<">", ">", ">", ">", ">", ">", ">", ">", ">", ">">>,
      <<"[", ">", "]">>,
      <<"[", "<", "]">>,
      <<"[", ">", ">", "]">>,
      <<"[", "<", "<", "]">>,
      <<">", "[", "<", "<", "]">>,
      <<"[", "-", "<", "+", ">", "]">>,
      <<"[", ".", ">", "]">>,
      <<"+", "[", "]">>,
      <<"-", "[", "-", ".", "]", ".">> }

\* n copies of one byte, for run lengths around the u8 boundaries
\* (tests::test_add_u8_boundaries)
Repeat(c, n) == [k \in 1..n |-> c]
WrapCounts == {255, 256, 257, 512}
WrapSources == {Repeat(c, n) : c \in {"+", "-"}, n \in WrapCounts}

RunSources == TestSources \cup WrapSources \cup SeqsUpTo(Commands, MaxRunLen)

Init == InitCompileOf(RunSources) /\ InitExec /\ InitSingle

NextExec ==
    \/ Run
    \/ ExecAdd
    \/ ExecMove
    \/ ExecSet
    \/ ExecMul
    \/ ExecScan
    \/ ExecOpen
    \/ ExecClose
    \/ ExecIn
    \/ ExecOut
    \/ ExecFinish

Next == NextCompile \/ NextExec

Spec == Init /\ [][Next]_vars

(***************************************************************************)
(* Two executions of one Program.  Program::run borrows the Program        *)
(* (`&self`), execute borrows ops and spans as shared slices and owns its  *)
(* tape, pointer, ip and opcount; the streams are the caller's.  The       *)
(* execution that is scheduled lives in the execute variables, the other   *)
(* one is parked in `other`; Yield switches between them after any         *)
(* instruction.  Before the two start, the first one has been run alone    *)
(* (action Run) and what it returned is kept in `alone`.                   *)
(***************************************************************************)
\* the scheduled execution as a value
ThisRun(id) ==
    [id |-> id, args |-> args, tape |-> tape, pointer |-> pointer,
     ip |-> ip, opcount |-> opcount, input |-> input,
     output |-> output, eresult |-> eresult, eerr |-> eerr]

\* an execution at the entry of execute, called with the arguments c
StartOf(id, c) ==
    [id |-> id, args |-> c,
     tape |-> IF c.tape.some THEN c.tape.v ELSE ZeroTape(c.config.tape_size),
     pointer |-> IF c.pointer.some THEN c.pointer.v ELSE 0,
     ip |-> 0, opcount |-> 0, input |-> c.input, output |-> c.output,
     eresult |-> "running",
     eerr |-> [span |-> NoSpan, pointer |-> 0, tape_len |-> 0]]

\* what an execution hands back to its caller
ResultOf(r) ==
    [tape |-> r.tape, pointer |-> r.pointer, output |-> r.output,
     eresult |-> r.eresult, eerr |-> r.eerr]

\* arguments of the second execution
SharedCases ==
    { [config |-> [tape_size |-> TapeSize, op_limit |-> None,
                   eof_behavior |-> "Zero", flush_output |-> TRUE],
       tape |-> Some(<<1, 2, 0>>), pointer |-> Some(1),
       input |-> Bytes(<<65>>), output |-> VecWriter],
      [config |-> [tape_size |-> TapeSize, op_limit |-> Some(2),
                   eof_behavior |-> "Zero", flush_output |-> TRUE],
       tape |-> NoTape, pointer |-> None,
       input |-> NoInput, output |-> NoOutput],
      [config |-> [tape_size |-> TapeSize, op_limit |-> None,
                   eof_behavior |-> "Unchanged", flush_output |-> TRUE],
       tape |-> Some(<<3, 1, 2, 4>>), pointer |-> Some(2),
       input |-> Bytes(<<66, 67>>), output |-> VecWriter] }

\* load the execution r into the execute variables
Schedule(r) ==
    /\ args' = r.args
    /\ tape' = r.tape
    /\ pointer' = r.pointer
    /\ ip' = r.ip
    /\ opcount' = r.opcount
    /\ input' = r.input
    /\ output' = r.output
    /\ eresult' = r.eresult
    /\ eerr' = r.eerr

\* the first execution has returned; the same call is made again, now
\* together with a second call on the same Program
RunBoth ==
    /\ alone.phase = "single"
    /\ eresult \notin {"idle", "running"}
    /\ alone' = [phase |-> "both", run |-> ThisRun(1)]
    /\ Schedule(StartOf(1, args))
    /\ \E c \in SharedCases : other' = StartOf(2, c)
    /\ UNCHANGED <<base, stdin, lineno, stdout, pushed>>
    /\ UNCHANGED cvars

\* faulty variant: the pointer is not part of what is switched
Yield_KeepsPointer ==
    /\ alone.phase = "both"
    /\ other.eresult = "running"
    /\ Schedule([other EXCEPT !.pointer = pointer])
    /\ other' = ThisRun(3 - other.id)
    /\ UNCHANGED <<alone, base, stdin, lineno, stdout, pushed>>
    /\ UNCHANGED cvars

\* the scheduler switches to the other execution
Yield ==
    /\ alone.phase = "both"
    /\ other.eresult = "running"
    /\ Schedule(other)
    /\ other' = ThisRun(3 - other.id)
    /\ UNCHANGED <<alone, base, stdin, lineno, stdout, pushed>>
    /\ UNCHANGED cvars

\* sources that reach every arm of compile and of execute
SharedSources ==
    { <<",", "[", ".", ">", "]">>,
      <<"+", "[", "-", ">", "+", "<", "]", ">", "[", "<", "]">>,
      <<"-", "[", "+", "]", "\n", "x", "[", "]">>,
      <<"]">>,
      <<"[">> }

InitShared == InitCompileOf(SharedSources) /\ InitExec /\ InitSingle

NextShared ==
    \/ NextCompile
    \/ NextExec
    \/ RunBoth
    \/ Yield

SpecShared == InitShared /\ [][NextShared]_vars

(***************************************************************************)
(* The same program with and without comment bytes: a source is compiled,  *)
(* the result is kept in `base`, then a variant of the source with bytes   *)
(* outside the eight commands inserted is compiled by the same actions.    *)
(***************************************************************************)
\* longest command tail appended to a prelude before bytes are inserted
MaxBaseLen == 2

CommentBytes == Alphabet \ Commands

InsertAt(s, k, c) == SubSeq(s, 1, k) \o <<c>> \o SubSeq(s, k + 1, Len(s))

\* c before, between and after all bytes of s
Interleave(s, c) ==
    [k \in 1..(2 * Len(s) + 1) |-> IF k % 2 = 1 THEN c ELSE s[k \div 2]]

Variants(s) ==
    {InsertAt(s, k, c) : k \in 0..Len(s), c \in CommentBytes}
    \cup {Interleave(s, c) : c \in CommentBytes}

CommentBases == {p \o t : p \in Preludes, t \in SeqsUpTo(Commands, MaxBaseLen)}

\* compile is called again, on a variant of the source just compiled
Recompile ==
    /\ base.phase = "base"
    /\ cresult # "compiling"
    /\ base' = [phase |-> "variant", source |-> source, ops |-> ops,
                cresult |-> cresult]
    /\ source' \in Variants(source)
    /\ ops' = <<>>
    /\ spans' = <<>>
    /\ loop_stack' = <<>>
    /\ i' = 0
    /\ line' = 1
    /\ col' = 1
    /\ cresult' = "compiling"
    /\ cerr' = NoSpan
    /\ first_skip' = 0
    /\ UNCHANGED <<other, alone, stdin, lineno, stdout, pushed>>
    /\ UNCHANGED evars

InitComments == InitCompileOf(CommentBases) /\ InitExec /\ InitSingle

NextComments ==
    \/ NextCompile
    \/ Recompile

SpecComments == InitComments /\ [][NextComments]_vars

(***************************************************************************)
(* run_batch (src/src/main.rs): the program is compiled once, then every   *)
(* line of standard input is one request.  A line is modelled by what      *)
(* serde_json makes of it: blank, unreadable (lines() returned Err), not   *)
(* valid JSON, or a BatchInput with its optional fields.  A panic of       *)
(* Program::run is not caught by run_batch and ends the process.           *)
(***************************************************************************)
\* most lines on standard input
MaxLines == 3

NoBytes == [some |-> FALSE, v |-> <<>>]
NoId == [some |-> FALSE, v |-> ""]
NoBatchConfig ==
    [some |-> FALSE,
     v |-> [tape_size |-> None, op_limit |-> None, eof_behavior |-> NoId]]

Line(kind, id, t, p, inp, cfg) ==
    [kind |-> kind, id |-> id, tape |-> t, pointer |-> p, input |-> inp,
     config |-> cfg]

BlankLine == Line("blank", NoId, NoTape, None, NoBytes, NoBatchConfig)
UnreadableLine == Line("unreadable", NoId, NoTape, None, NoBytes, NoBatchConfig)
InvalidJson == Line("invalid", NoId, NoTape, None, NoBytes, NoBatchConfig)

RequestLines ==
    { BlankLine,
      UnreadableLine,
      InvalidJson,
      \* {"id": "a", "input": [65]}
      Line("request", Some("a"), NoTape, None, Some(<<65>>), NoBatchConfig),
      \* {"tape": [0, 3, 0, 0], "pointer": 1, "config": {"op_limit": 2}}
      Line("request", NoId, Some(<<0, 3, 0, 0>>), Some(1), NoBytes,
           [some |-> TRUE,
            v |-> [tape_size |-> None, op_limit |-> Some(2), eof_behavior |-> NoId]]),
      \* {"id": "c", "tape": [5, 0, 7, 0, 0], "pointer": 3, "input": [],
      \*  "config": {"eof_behavior": "MAX", "tape_size": 2}}
      Line("request", Some("c"), Some(<<5, 0, 7, 0, 0>>), Some(3), Some(<<>>),
           [some |-> TRUE,
            v |-> [tape_size |-> Some(2), op_limit |-> None,
                   eof_behavior |-> Some("MAX")]]),
      \* {"id": "b", "tape": [1, 2, 0], "pointer": 5}
      Line("request", Some("b"), Some(<<1, 2, 0>>), Some(5), NoBytes, NoBatchConfig) }

\* the Config main builds from the command line for --batch, with the
\* front-end defaults
BaseConfig ==
    [tape_size |-> TapeSize, op_limit |-> None, eof_behavior |-> "Unchanged",
     flush_output |-> FALSE]

\* str::to_lowercase on the strings used here
ToLowercase(str) ==
    CASE str = "MAX" -> "max"
      [] str = "Unchanged" -> "unchanged"
      [] str = "Zero" -> "zero"
      [] OTHER -> str

ParseEofString(str) ==
    CASE ToLowercase(str) = "unchanged" -> "Unchanged"
      [] ToLowercase(str) = "max" -> "MaxValue"
      [] OTHER -> "Zero"

\* the Config of one request
RequestConfig(req) ==
    IF req.config.some
    THEN LET bc == req.config.v IN
         [tape_size |-> IF bc.tape_size.some THEN bc.tape_size.v
                        ELSE BaseConfig.tape_size,
          op_limit |-> IF bc.op_limit.some THEN bc.op_limit
                       ELSE BaseConfig.op_limit,
          eof_behavior |-> IF bc.eof_behavior.some
                           THEN ParseEofString(bc.eof_behavior.v)
                           ELSE BaseConfig.eof_behavior,
          flush_output |-> FALSE]
    ELSE [BaseConfig EXCEPT !.flush_output = FALSE]

\* the arguments of the program.run call made for one request
RequestArgs(req) ==
    [config |-> RequestConfig(req),
     tape |-> req.tape,
     pointer |-> req.pointer,
     input |-> Bytes(IF req.input.some THEN req.input.v ELSE <<>>),
     output |-> VecWriter]

\* faulty variant: one trailing zero is removed at most
TrimTape_OneZero(t) ==
    IF Len(t) > 0 /\ t[Len(t)] = 0 THEN SubSeq(t, 1, Len(t) - 1) ELSE t

RECURSIVE TrimTape(_)
TrimTape(t) ==
    IF Len(t) > 0 /\ t[Len(t)] = 0 THEN TrimTape(SubSeq(t, 1, Len(t) - 1)) ELSE t

BatchOutputOk(id, t, p, out) ==
    [id |-> id, ok |-> TRUE, tape |-> t, pointer |-> p, output |-> out,
     error |-> ""]
BatchOutputErr(id, msg) ==
    [id |-> id, ok |-> FALSE, tape |-> <<>>, pointer |-> 0, output |-> <<>>,
     error |-> msg]

\* the for loop is about to take the next line
BatchIdle == cresult = "Ok" /\ eresult = "idle" /\ lineno < Len(stdin)
CurLine == stdin[lineno + 1]

ExecErrors == {"PointerUnderflow", "PointerOverflow", "OperationLimit", "IoError"}

\* a line handled without running the program
BatchNoRun(out) ==
    /\ lineno' = lineno + 1
    /\ stdout' = stdout \o out
    /\ UNCHANGED <<stdin, other, alone, base, pushed>>
    /\ UNCHANGED <<cvars, evars>>

BatchBlank ==
    /\ BatchIdle
    /\ CurLine.kind = "blank"
    /\ BatchNoRun(<<>>)

BatchUnreadable ==
    /\ BatchIdle
    /\ CurLine.kind = "unreadable"
    /\ BatchNoRun(<<BatchOutputErr(NoId, "failed to read input line")>>)

BatchInvalid ==
    /\ BatchIdle
    /\ CurLine.kind = "invalid"
    /\ BatchNoRun(<<BatchOutputErr(NoId, "invalid JSON")>>)

\* program.run(&config, tape, pointer, Some(input), Some(output))
BatchCall ==
    /\ BatchIdle
    /\ CurLine.kind = "request"
    /\ Schedule(StartOf(1, RequestArgs(CurLine)))
    /\ UNCHANGED <<stdin, lineno, stdout, other, alone, base, pushed>>
    /\ UNCHANGED cvars

\* the line is answered and the loop goes on
BatchAnswer(out) ==
    /\ stdout' = Append(stdout, out)
    /\ lineno' = lineno + 1
    /\ eresult' = "idle"
    /\ UNCHANGED <<args, tape, pointer, ip, opcount, input, output, eerr>>
    /\ UNCHANGED <<stdin, other, alone, base, pushed>>
    /\ UNCHANGED cvars

BatchErr ==
    /\ lineno < Len(stdin)
    /\ eresult \in ExecErrors
    /\ BatchAnswer(BatchOutputErr(CurLine.id, eresult))

BatchOk ==
    /\ lineno < Len(stdin)
    /\ eresult = "Ok"
    /\ BatchAnswer(BatchOutputOk(CurLine.id, TrimTape(tape), pointer, output.data))

InitBatch ==
    /\ InitCompileOf(SharedSources)
    /\ InitExec
    /\ InitNoSecond
    /\ stdin \in SeqsUpTo(RequestLines, MaxLines)
    /\ lineno = 0
    /\ stdout = <<>>

NextBatch ==
    \/ NextCompile
    \/ BatchBlank
    \/ BatchUnreadable
    \/ BatchInvalid
    \/ BatchCall
    \/ ExecAdd
    \/ ExecMove
    \/ ExecSet
    \/ ExecMul
    \/ ExecScan
    \/ ExecOpen
    \/ ExecClose
    \/ ExecIn
    \/ ExecOut
    \/ ExecFinish
    \/ BatchOk
    \/ BatchErr

SpecBatch == InitBatch /\ [][NextBatch]_vars

(***************************************************************************)
(* Reference notions the properties are stated against.                    *)
(***************************************************************************)
\* line and column of byte offset `start`, counted from the source text
NewlinesBefore(src, start) == {k \in 1..start : src[k] = "\n"}
RefLine(src, start) == 1 + Cardinality(NewlinesBefore(src, start))
RefCol(src, start) ==
    IF NewlinesBefore(src, start) = {} THEN 1 + start
    ELSE 1 + (start - MaxOf(NewlinesBefore(src, start)))
SpanExact(sp) ==
    /\ sp.line = RefLine(source, sp.start)
    /\ sp.col = RefCol(source, sp.start)

\* ordinary bracket matching: the offset of the first `]` without an earlier
\* matching `[` (-1 if none) and the number of `[` left open at the end
RECURSIVE BracketScan(_, _, _)
BracketScan(src, k, depth) ==
    IF k > Len(src) THEN [close |-> -1, depth |-> depth]
    ELSE IF src[k] = "[" THEN BracketScan(src, k + 1, depth + 1)
    ELSE IF src[k] = "]" THEN
        IF depth = 0 THEN [close |-> k - 1, depth |-> 0]
        ELSE BracketScan(src, k + 1, depth - 1)
    ELSE BracketScan(src, k + 1, depth)
Brackets(src) == BracketScan(src, 1, 0)
HasUnmatchedClose(src) == Brackets(src).close >= 0
EndsWithUnmatchedOpen(src) == Brackets(src).close = -1 /\ Brackets(src).depth > 0

\* the tape and pointer execute starts from
InitTape == IF args.tape.some THEN args.tape.v ELSE ZeroTape(args.config.tape_size)
InitPointer == IF args.pointer.some THEN args.pointer.v ELSE 0
StartInRange == InitPointer < Len(InitTape)
Finished == eresult \notin {"idle", "running"}

(***************************************************************************)
(* Properties.                                                             *)
(***************************************************************************)

\* C1: in an execution started with 0 <= p0 < tape.len() the data pointer
\* stays within 0 .. tape.len()-1 before and after every instruction, also
\* when the execution has ended with an error; the tape keeps its length
\* and no tape index is ever out of bounds.
C1_PointerInRange ==
    (eresult # "idle" /\ StartInRange) =>
        /\ 0 <= pointer
        /\ pointer < Len(tape)
        /\ Len(tape) = Len(InitTape)
        /\ eresult # "Panic"

\* an execution from an in-range pointer that moved and then ended with
\* PointerOverflow on an instruction that would have left the tape
C1_Witness ==
    /\ StartInRange
    /\ eresult = "PointerOverflow"
    /\ pointer > InitPointer
    /\ eerr.pointer >= Len(tape)

\* C2: every Close(j) at index k has j < k and ops[j] = Open(k); every
\* Open(j) at index k has j > k and ops[j] = Close(k), except that while a
\* loop is still open (never in a returned program) its Open is the
\* placeholder Open(0).  Holding after every step, no rewrite shifts an
\* index an emitted Open/Close refers to.
C2_JumpsPaired ==
    \A k \in 1..Len(ops) :
        /\ ops[k].tag = "Close" =>
              /\ ops[k].a < k - 1
              /\ ops[ops[k].a + 1] = Open(k - 1)
        /\ ops[k].tag = "Open" =>
              \/ /\ ops[k].a > k - 1
                 /\ ops[k].a < Len(ops)
                 /\ ops[ops[k].a + 1] = Close(k - 1)
              \/ /\ cresult # "Ok"
                 /\ ops[k] = Open(0)

\* a returned program with a general loop that does not start at index 0
\* and is followed by further ops
C2_Witness ==
    /\ cresult = "Ok"
    /\ \E k \in 1..Len(ops) :
          /\ ops[k].tag = "Close"
          /\ ops[k].a > 0
          /\ k < Len(ops)

\* C3: a source that ends with an unmatched `[` and has no unmatched `]`
\* is rejected with UnmatchedOpen.
C3_UnmatchedOpenReported ==
    (cresult # "compiling" /\ EndsWithUnmatchedOpen(source)) =>
        cresult = "UnmatchedOpen"

\* C4: compile returns UnmatchedClose exactly for the sources with a `]`
\* that ordinary bracket matching leaves unmatched; the span is that of the
\* first such byte and compile stopped reading there.
C4_UnmatchedCloseExact ==
    /\ cresult = "UnmatchedClose" =>
          /\ HasUnmatchedClose(source)
          /\ cerr.start = Brackets(source).close
          /\ cerr.end = cerr.start + 1
          /\ i = cerr.start
    /\ cresult \in {"Ok", "UnmatchedOpen"} => ~HasUnmatchedClose(source)

\* UnmatchedClose raised after a dead loop was skipped, with source bytes
\* left unread after the offending `]`
C4_Witness ==
    /\ cresult = "UnmatchedClose"
    /\ first_skip > 0
    /\ cerr.start + 1 < Len(source)

\* C5: OperationLimit is returned exactly when the count of executed
\* instructions exceeds op_limit, that is right after instruction L+1,
\* with the span of that instruction; never when op_limit is absent.
C5_OperationLimit ==
    /\ [](eresult # "idle" =>
            /\ eresult = "OperationLimit" =>
                  (OpLimit.some /\ opcount = OpLimit.v + 1)
            /\ (OpLimit.some /\ opcount > OpLimit.v) =>
                  eresult = "OperationLimit")
    /\ [][(eresult = "running" /\ eresult' = "OperationLimit") =>
            /\ opcount' = opcount + 1
            /\ eerr'.span = spans[ip + 1]]_vars

\* the limit L = 2 tripped by the third instruction, after a jump
C5_Witness ==
    /\ eresult = "OperationLimit"
    /\ OpLimit.v = 2
    /\ opcount = 3
    /\ ip # opcount

\* C6: Move(d) at pointer p on a tape of length n, new = p + d: new < 0
\* gives PointerUnderflow, new >= n gives PointerOverflow{new, n}, else
\* the pointer becomes new; the tape is unchanged and the error carries the
\* span of the Move.
C6_MoveChecked ==
    [][(/\ eresult = "running"
        /\ ip < Len(ops)
        /\ ops[ip + 1].tag = "Move"
        /\ (opcount' # opcount \/ eresult' # eresult)) =>
            LET new == pointer + ops[ip + 1].a
                n == Len(tape)
            IN /\ tape' = tape
               /\ new < 0 =>
                     /\ eresult' = "PointerUnderflow"
                     /\ eerr'.span = spans[ip + 1]
                     /\ pointer' = pointer
               /\ new >= n =>
                     /\ eresult' = "PointerOverflow"
                     /\ eerr' = [span |-> spans[ip + 1], pointer |-> new, tape_len |-> n]
                     /\ pointer' = pointer
               /\ (0 <= new /\ new < n) =>
                     /\ pointer' = new
                     /\ eresult' \in {"running", "OperationLimit"}]_vars

\* Move(10) on five cells at pointer 0 ended with PointerOverflow{10, 5}
C6_Witness ==
    /\ eresult = "PointerOverflow"
    /\ ops[ip + 1] = Move(10)
    /\ eerr.pointer = 10
    /\ eerr.tape_len = 5

\* `,[+>-.<]` run on a zero tape at pointer 0 with input "A", an output
\* writer and no operation limit
Scenario7 ==
    /\ source = SrcBasic
    /\ eresult # "idle"
    /\ args.input = Bytes(<<65>>)
    /\ args.output.kind = "vec"
    /\ InitTape = ZeroTape(Len(InitTape))
    /\ Len(InitTape) >= 2
    /\ InitPointer = 0
    /\ ~OpLimit.some

\* the bytes 255, 254, ..., 65
Countdown == [k \in 1..191 |-> 256 - k]

\* C7 as stated: the run writes exactly one byte, 64.
C7_Original == (Scenario7 /\ eresult = "Ok") => output.data = <<64>>

\* C7 amended: the run ends normally and writes the 191 bytes 255, 254,
\* ..., 65, one per pass of the loop, in this order.
C7_Amended ==
    Scenario7 =>
        /\ eresult \in {"running", "Ok"}
        /\ Len(output.data) <= 191
        /\ output.data = SubSeq(Countdown, 1, Len(output.data))
        /\ eresult = "Ok" => output.data = Countdown

C7_Witness == Scenario7 /\ eresult = "Ok" /\ Len(output.data) = 191

\* `[->+<]` run on tape [10, 0] at pointer 0 with op_limit L, finished
Scenario8(L) ==
    /\ source = SrcCopy
    /\ Finished
    /\ args.tape = Some(<<10, 0>>)
    /\ InitPointer = 0
    /\ OpLimit = Some(L)

\* C8 as stated: OperationLimit with op_limit 30, success with op_limit 100.
C8_Original ==
    /\ Scenario8(30) => eresult = "OperationLimit"
    /\ Scenario8(100) => (eresult = "Ok" /\ tape = <<0, 10>>)

\* C8 amended: the source compiles to Mul(1,1), Set(0); the run executes
\* two instructions and succeeds with tape [0, 10] with op_limit 30 as with
\* op_limit 100; only a limit below 2 gives OperationLimit.
C8_Amended ==
    /\ (Scenario8(30) \/ Scenario8(100)) =>
          /\ eresult = "Ok"
          /\ tape = <<0, 10>>
          /\ opcount = 2
    /\ (Scenario8(0) \/ Scenario8(1)) => eresult = "OperationLimit"
    /\ Scenario8(2) => eresult = "Ok"

C8_Witness == Scenario8(30) /\ eresult = "Ok" /\ ops = <<Mul(1, 1), Set(0)>>

\* C9: after a dead loop was skipped, every op span and error span that
\* starts behind the skipped loop has the line and column of its first byte.
C9_SpansAfterSkipExact ==
    first_skip > 0 =>
        /\ \A k \in 1..Len(spans) :
              spans[k].start >= first_skip => SpanExact(spans[k])
        /\ (cresult \in {"UnmatchedOpen", "UnmatchedClose"} /\ cerr.start >= first_skip)
              => SpanExact(cerr)

\* C10: as long as no loop was elided as dead, every op span and error span
\* has line = 1 + newlines before its start and col = 1 + bytes since the
\* last newline (or the beginning of the source) before its start.
C10_SpansExact ==
    first_skip = 0 =>
        /\ \A k \in 1..Len(spans) : SpanExact(spans[k])
        /\ cresult \in {"UnmatchedOpen", "UnmatchedClose"} => SpanExact(cerr)

\* a compiled source, nothing elided, with an op on a later line behind an
\* ignored byte
C10_Witness ==
    /\ cresult = "Ok"
    /\ first_skip = 0
    /\ \E k \in 1..Len(spans) : spans[k].line > 1 /\ spans[k].col > 1
    /\ \E k \in 1..Len(source) : source[k] \notin Commands \cup {"\n"}

(***************************************************************************)
(* Claims C11..C20: shape of the compiled ops, loop rewriting, dispatch    *)
(* and input/output.                                                       *)
(***************************************************************************)

\* C11: after any prefix of the source has been processed, and in the final
\* result, ops holds no Add(0), no Move(0) and no Scan(0).
C11_NoZeroOps ==
    \A k \in 1..Len(ops) :
        ops[k].tag \in {"Add", "Move", "Scan"} => ops[k].a # 0

\* a `+-` pair cancelled right after a scan loop was rewritten
C11_Witness ==
    /\ cresult = "Ok"
    /\ Len(source) >= 2
    /\ source[Len(source) - 1] = "+"
    /\ source[Len(source)] = "-"
    /\ Len(ops) > 0
    /\ Last(ops).tag = "Scan"

\* C12: after every source byte, and in the result, ops and spans have the
\* same length.
C12_SameLength == Len(ops) = Len(spans)

\* a compiled program in which a loop was rewritten to a Scan (two ops
\* popped, one pushed) between other ops
C12_Witness ==
    /\ cresult = "Ok"
    /\ Len(ops) >= 3
    /\ \E k \in 2..(Len(ops) - 1) : ops[k].tag = "Scan"

\* the op that ends the run of Mul ops starting at index k satisfies P
MulRunEndsWith(k, P(_)) ==
    \E j \in (k + 1)..Len(ops) :
        /\ \A m \in (k + 1)..(j - 1) : ops[m].tag = "Mul"
        /\ P(ops[j])

IsSetZero(op) == op = Set(0)
IsSet(op) == op.tag = "Set"

\* C13 as stated: in the ops returned by compile every Mul(offset, factor)
\* has offset # 0 and is followed, after further Mul ops only, by a Set(0),
\* whatever source text follows the multiplication loop.
C13_Original ==
    cresult = "Ok" =>
        \A k \in 1..Len(ops) :
            ops[k].tag = "Mul" => ops[k].a # 0 /\ MulRunEndsWith(k, IsSetZero)

\* C13 amended: in the ops returned by compile every Mul(offset, factor) has
\* offset # 0 and is followed, after further Mul ops only, by a Set op: the
\* Set(0) of the loop, or the Set(n) it merged into with the Adds that
\* follow the loop.
C13_Amended ==
    cresult = "Ok" =>
        \A k \in 1..Len(ops) :
            ops[k].tag = "Mul" => ops[k].a # 0 /\ MulRunEndsWith(k, IsSet)

\* a multiplication loop followed by `+` or `-`: the Set after the Mul run
\* is not Set(0)
C13_Witness ==
    /\ cresult = "Ok"
    /\ \E k \in 1..(Len(ops) - 1) :
        /\ ops[k].tag = "Mul"
        /\ ops[k + 1].tag = "Set"
        /\ ops[k + 1].a # 0

\* pointer offset reached before body[k], from the Moves alone
RECURSIVE OffsetBefore(_, _)
OffsetBefore(body, k) ==
    IF k <= 1 THEN 0
    ELSE OffsetBefore(body, k - 1)
         + (IF body[k - 1].tag = "Move" THEN body[k - 1].a ELSE 0)

NetOffset(body) == OffsetBefore(body, Len(body) + 1)

\* sum (mod 256) of the Adds among body[1..k] performed at offset 0
RECURSIVE OriginDeltaUpTo(_, _)
OriginDeltaUpTo(body, k) ==
    IF k = 0 THEN 0
    ELSE (OriginDeltaUpTo(body, k - 1)
          + (IF body[k].tag = "Add" /\ OffsetBefore(body, k) = 0
             THEN body[k].a ELSE 0)) % ByteMod

OnlyAddMove(body) == \A k \in 1..Len(body) : body[k].tag \in {"Add", "Move"}

\* the three conditions of a multiplication loop
IsMulBody(body) ==
    /\ OnlyAddMove(body)
    /\ NetOffset(body) = 0
    /\ OriginDeltaUpTo(body, Len(body)) = 255

\* one Mul per Add at a nonzero offset, in body order
AwayAdds(body) ==
    {k \in 1..Len(body) : body[k].tag = "Add" /\ OffsetBefore(body, k) # 0}

ExpectedMuls(body) ==
    [n \in 1..Cardinality(AwayAdds(body)) |->
        LET k == CHOOSE k \in AwayAdds(body) :
                     Cardinality({j \in AwayAdds(body) : j <= k}) = n
        IN Mul(OffsetBefore(body, k), body[k].a)]

NumMul(o) == Cardinality({k \in 1..Len(o) : o[k].tag = "Mul"})

\* a `]` that closes a loop is about to be compiled
AtLoopClose == Compiling /\ Cur = "]" /\ Len(loop_stack) > 0

\* C14: on `]`, a loop whose body is only Add and Move ops, with net
\* pointer offset 0 and net delta 255 on the origin cell, is replaced (Open
\* and body removed) by one Mul(offset, n) per body Add(n) at a nonzero
\* offset, in order and without aggregation, followed by a push-and-compact
\* of Set(0); a body failing one of the three conditions yields no Mul.
C14_MulLoopRewrite ==
    [][AtLoopClose =>
        IF IsMulBody(LoopBody)
        THEN LET muls == ExpectedMuls(LoopBody) IN
             ops' = PushAndCompact(Truncate(ops, LoopStart) \o muls,
                                   Truncate(spans, LoopStart)
                                       \o [k \in 1..Len(muls) |-> LoopSpan],
                                   Set(0), LoopSpan).ops
        ELSE NumMul(ops') = NumMul(ops)]_vars

\* a loop that adds to the same offset twice, compiled to three Mul ops
C14_Witness ==
    /\ cresult = "Ok"
    /\ ops = <<Mul(1, 1), Mul(2, 255), Mul(1, 255), Set(0)>>

\* C15: a loop that is not a multiplication loop and whose compacted body
\* is exactly one Move(n) is replaced by the single op Scan(n); no Open or
\* Close is emitted for it.
C15_ScanLoopRewrite ==
    [][(/\ AtLoopClose
        /\ ~IsMulBody(LoopBody)
        /\ Len(LoopBody) = 1
        /\ LoopBody[1].tag = "Move")
       => ops' = Append(Truncate(ops, LoopStart), Scan(LoopBody[1].a))]_vars

\* `[<<<]` compiled to a scan of stride -3
C15_Witness ==
    /\ cresult = "Ok"
    /\ i = 5
    /\ ops = <<Scan(-3)>>

\* C16: a loop whose compacted body is exactly one Add(n) becomes a
\* push-and-compact of Set(0) when n is odd, and stays the general loop
\* Open(j) Add(n) Close(i) when n is even.
C16_SingleAddLoop ==
    [][(/\ AtLoopClose
        /\ Len(LoopBody) = 1
        /\ LoopBody[1].tag = "Add")
       => IF LoopBody[1].a % 2 = 1
          THEN ops' = PushAndCompact(Truncate(ops, LoopStart),
                                     Truncate(spans, LoopStart),
                                     Set(0), LoopSpan).ops
          ELSE ops' = Truncate(ops, LoopStart)
                      \o <<Open(LoopStart + 2), LoopBody[1], Close(LoopStart)>>]_vars

\* `,[+],[++]`: the odd loop is a Set(0), the even one a general loop
C16_Witness ==
    /\ cresult = "Ok"
    /\ ops = <<In, Set(0), In, Open(5), Add(2), Close(3)>>

\* brackets opened minus brackets closed in src[p..q] (1-based, inclusive)
BalanceIn(src, p, q) ==
    Cardinality({r \in p..q : src[r] = "["})
    - Cardinality({r \in p..q : src[r] = "]"})

\* 1-based positions of the `]` matching the `[` at position p (none or one)
MatchOf(src, p) ==
    {q \in (p + 1)..Len(src) :
        /\ BalanceIn(src, p, q) = 0
        /\ \A r \in p..(q - 1) : BalanceIn(src, p, r) > 0}

\* a `[` is about to be compiled while the last op is Set(0), Close or Scan
AtDeadOpen ==
    /\ Compiling
    /\ Cur = "["
    /\ Len(ops) > 0
    /\ (Last(ops) = Set(0) \/ Last(ops).tag \in {"Close", "Scan"})

\* C17: a `[` read while the last op is Set(0), Close or Scan starts a dead
\* loop: the region up to its matching `]` (nested brackets counted) adds
\* no op, ops and spans stay as they were, and compilation resumes with the
\* byte after the matching `]` (so consecutive dead loops are all elided).
C17_DeadLoopElided ==
    [][AtDeadOpen =>
        /\ ops' = ops
        /\ spans' = spans
        /\ loop_stack' = loop_stack
        /\ \A q \in MatchOf(source, i + 1) : i' = q]_vars

\* two dead loops in a row after a clear loop, both closed, nothing emitted
C17_Witness ==
    /\ cresult = "Ok"
    /\ ops = <<Set(0)>>
    /\ first_skip > 0
    /\ Len(source) = first_skip + 2
    /\ source[first_skip + 1] = "["
    /\ source[first_skip + 2] = "]"

\* an instruction is fetched at ip and completes (it is counted)
InstructionDone == eresult = "running" /\ ip < Len(ops) /\ opcount' = opcount + 1

\* C18: the instruction after the one at ip is the one at ip + 1, except
\* that Open(j) on a zero cell continues at j + 1 and Close(j) on a nonzero
\* cell continues at j + 1; execution ends normally exactly when ip equals
\* ops.len(), returning tape and pointer as the last instruction left them.
C18_Dispatch ==
    /\ [][InstructionDone =>
            ip' = IF CurOp.tag = "Open" /\ tape[pointer + 1] = 0 THEN CurOp.a + 1
                  ELSE IF CurOp.tag = "Close" /\ tape[pointer + 1] # 0 THEN CurOp.a + 1
                  ELSE ip + 1]_vars
    /\ [][(eresult = "running" /\ ip >= Len(ops)) =>
            /\ ip = Len(ops)
            /\ eresult' = "Ok"
            /\ tape' = tape
            /\ pointer' = pointer]_vars
    /\ [][(eresult # "Ok" /\ eresult' = "Ok") =>
            eresult = "running" /\ ip = Len(ops)]_vars

\* a finished run that executed more instructions than the program holds:
\* a Close jumped back at least once
C18_Witness ==
    /\ eresult = "Ok"
    /\ ip = Len(ops)
    /\ opcount > Len(ops)
    /\ \E k \in 1..Len(ops) : ops[k].tag = "Close"

\* number of bytes the run has consumed from its input stream
BytesRead == Len(args.input.data) - Len(input.data)

\* an In completes on a byte stream with the pointer on the tape
InDoneOnBytes ==
    /\ InstructionDone
    /\ CurOp.tag = "In"
    /\ input.kind = "bytes"
    /\ pointer < Len(tape)

\* the cell value an In at EOF leaves, given the value before
EofCell(behavior, old) ==
    CASE behavior = "Zero" -> 0
      [] behavior = "Unchanged" -> old
      [] behavior = "MaxValue" -> 255

\* C19: with an input stream b1..bn the k-th executed In stores bk in the
\* current cell for k <= n; an In after the stream is exhausted applies
\* eof_behavior (Zero: 0, Unchanged: the cell as it was, MaxValue: 255); an
\* In changes neither the pointer nor any other cell.
C19_InSemantics ==
    /\ []((eresult # "idle" /\ input.kind = "bytes") =>
            /\ BytesRead >= 0
            /\ input.data = SubSeq(args.input.data, BytesRead + 1,
                                   Len(args.input.data)))
    /\ [][(eresult = "running" /\ ip < Len(ops) /\ CurOp.tag # "In") =>
            input' = input]_vars
    /\ [][InDoneOnBytes =>
            /\ pointer' = pointer
            /\ Len(tape') = Len(tape)
            /\ \A c \in 1..Len(tape) : c # pointer + 1 => tape'[c] = tape[c]
            /\ IF BytesRead < Len(args.input.data)
               THEN /\ tape'[pointer + 1] = args.input.data[BytesRead + 1]
                    /\ Len(input'.data) = Len(input.data) - 1
               ELSE /\ tape'[pointer + 1] =
                          EofCell(args.config.eof_behavior, tape[pointer + 1])
                    /\ input' = input]_vars

\* `,,` on the input "A" with EOF policy Zero: the cell held 10, received 65
\* from the first In and 0 from the second
C19_Witness ==
    /\ eresult = "Ok"
    /\ source = <<",", ",">>
    /\ args.input = Bytes(<<65>>)
    /\ args.config.eof_behavior = "Zero"
    /\ InitTape = <<10, 0>>
    /\ tape = <<0, 0>>
    /\ input.data = <<>>

\* the instruction at ip is about to be executed
Fetched(tag) == Executing /\ CurOp.tag = tag

\* the step changes nothing but ip and opcount, and counts one instruction
NoOpStep ==
    /\ tape' = tape
    /\ pointer' = pointer
    /\ input' = input
    /\ output' = output
    /\ ip' = ip + 1
    /\ opcount' = opcount + 1
    /\ eresult' \in {"running", "OperationLimit"}

\* C20: without an input stream In leaves tape and pointer unchanged
\* whatever eof_behavior is; without an output stream Out leaves the state
\* unchanged; neither fails, and both count as one executed instruction.
C20_AbsentStreams ==
    /\ [][(Fetched("In") /\ input.kind = "none") => NoOpStep]_vars
    /\ [][(Fetched("Out") /\ output.kind = "none") => NoOpStep]_vars

\* `,.` run without streams under EOF policy MaxValue: two instructions
\* counted, the tape as it was passed in
C20_Witness ==
    /\ eresult = "Ok"
    /\ source = <<",", ".">>
    /\ args.input = NoInput
    /\ args.output = NoOutput
    /\ args.config.eof_behavior = "MaxValue"
    /\ opcount = 2
    /\ InitTape = <<10, 0>>
    /\ tape = <<10, 0>>
    /\ pointer = 0

(***************************************************************************)
(* Claims C21..C30: output, Mul and Scan, independent runs, wrapping,      *)
(* comment bytes, batch mode and semantic preservation.                    *)
(***************************************************************************)

\* C21: the bytes written are, in order, the current cell at each executed
\* Out; with flush_output each write is followed by a flush within the same
\* instruction, without it the interpreter never flushes; a failed write or
\* flush ends the execution with IoError carrying that Out's span, and no
\* later instruction executes.
C21_OutSemantics ==
    /\ [][(Executing /\ CurOp.tag # "Out") => output' = output]_vars
    /\ [][(Fetched("Out") /\ output.kind # "none" /\ pointer < Len(tape)) =>
            IF output.kind = "failing"
            THEN /\ eresult' = "IoError"
                 /\ eerr'.span = CurOpSpan
                 /\ output' = output
                 /\ opcount' = opcount
            ELSE /\ output'.data = Append(output.data, tape[pointer + 1])
                 /\ IF ~args.config.flush_output
                    THEN /\ output'.flushes = output.flushes
                         /\ opcount' = opcount + 1
                         /\ eresult' # "IoError"
                    ELSE IF output.kind = "flushfails"
                    THEN /\ eresult' = "IoError"
                         /\ eerr'.span = CurOpSpan
                         /\ opcount' = opcount
                    ELSE /\ output'.flushes = output.flushes + 1
                         /\ opcount' = opcount + 1
                         /\ eresult' # "IoError"]_vars
    /\ [][eresult = "IoError" => FALSE]_vars
    /\ [](~args.config.flush_output => output.flushes = 0)
    /\ []((args.config.flush_output /\ output.kind = "vec")
            => output.flushes = Len(output.data))

\* `,.` on the input "A" with a writer whose flush fails: the byte is
\* written, the run ends with IoError at the span of the `.`
C21_Witness ==
    /\ eresult = "IoError"
    /\ source = <<",", ".">>
    /\ output.kind = "flushfails"
    /\ output.data = <<65>>
    /\ eerr.span = Span(1, 2, 1, 2)

\* C22: Mul(off, f) at pointer p with target t = p + off fails with
\* PointerUnderflow if t < 0 and with PointerOverflow{pointer: t} if
\* t >= tape_len; otherwise tape[t] becomes (tape[t] + tape[p] * f) mod 256
\* and the pointer and every other cell are unchanged.
C22_MulSemantics ==
    [][(Fetched("Mul") /\ pointer < Len(tape)) =>
        LET t == pointer + CurOp.a IN
        IF t < 0
        THEN /\ eresult' = "PointerUnderflow"
             /\ eerr'.span = CurOpSpan
             /\ tape' = tape
             /\ pointer' = pointer
        ELSE IF t >= Len(tape)
        THEN /\ eresult' = "PointerOverflow"
             /\ eerr' = [span |-> CurOpSpan, pointer |-> t, tape_len |-> Len(tape)]
             /\ tape' = tape
             /\ pointer' = pointer
        ELSE /\ pointer' = pointer
             /\ Len(tape') = Len(tape)
             /\ tape'[t + 1] = (tape[t + 1] + tape[pointer + 1] * CurOp.b) % ByteMod
             /\ \A c \in 1..Len(tape) : c # t + 1 => tape'[c] = tape[c]
             /\ eresult' \in {"running", "OperationLimit"}]_vars

\* `[-<->]` run on the tape 1 2 0 at pointer 1: Mul(-1, 255) wraps cell 0
\* from 1 + 2 * 255 to 255, then the Set(0) clears cell 1
C22_Witness ==
    /\ eresult = "Ok"
    /\ source = <<"[", "-", "<", "-", ">", "]">>
    /\ InitTape = <<1, 2, 0>>
    /\ tape = <<255, 0, 0>>
    /\ pointer = 1

\* the step counts k for which p + k*s is on the tape and holds a zero
ZeroSteps(t, p, s) ==
    {k \in 0..Len(t) : /\ p + k * s >= 0
                       /\ p + k * s < Len(t)
                       /\ t[p + k * s + 1] = 0}

BothDone ==
    /\ alone.phase = "both"
    /\ eresult \notin {"idle", "running"}
    /\ other.eresult \notin {"idle", "running"}

\* C24: when two executions of the same Program run with their steps
\* interleaved in any order, each with its own tape, pointer and streams,
\* each produces the result (tape, pointer, output or error) it produces
\* when run alone, and ops and spans are the same after the runs as before.
C24_IndependentRuns ==
    /\ [](BothDone =>
            \A r \in {ThisRun(3 - other.id), other} :
                r.args = alone.run.args => ResultOf(r) = ResultOf(alone.run))
    /\ [][cresult = "Ok" => (ops' = ops /\ spans' = spans)]_vars

\* `,[.>]` run twice at once, on the tape 3 1 2 4 and on the tape 1 2 0:
\* both have returned, the second was scheduled last
C24_Witness ==
    /\ BothDone
    /\ source = <<",", "[", ".", ">", "]">>
    /\ other.id = 1
    /\ other.args.tape = Some(<<3, 1, 2, 4>>)
    /\ other.args.input = Bytes(<<65>>)
    /\ other.eresult = "PointerOverflow"
    /\ other.output.data = <<65, 4>>
    /\ output.data = <<65>>
    /\ eresult = "Ok"

\* the source is a nonempty run of the byte c
AllOf(c) == Len(source) > 0 /\ \A k \in 1..Len(source) : source[k] = c

\* the Add a run of n `+` (sign = 1) or n `-` (sign = -1) amounts to
RunValue(sign, n) == IF sign = 1 THEN n % ByteMod
                     ELSE (ByteMod - (n % ByteMod)) % ByteMod

\* ops after i bytes of a run: nothing at a multiple of 256, one Add else
RunOps(sign) == IF RunValue(sign, i) = 0 THEN <<>> ELSE <<Add(RunValue(sign, i))>>

\* the run has been executed to completion from a zero cell
RanOnZeroCell ==
    /\ eresult = "Ok"
    /\ StartInRange
    /\ InitTape[InitPointer + 1] = 0

\* C25: compiling and running n `+` on a fresh zero cell leaves the cell
\* equal to n mod 256; for n = 256*k the cell is 0 and no op is emitted;
\* n `-` leave (256 - n mod 256) mod 256.
C25_WrappingRuns ==
    /\ AllOf("+") => ops = RunOps(1)
    /\ AllOf("-") => ops = RunOps(-1)
    /\ (AllOf("+") /\ RanOnZeroCell) =>
            /\ pointer = InitPointer
            /\ tape[pointer + 1] = RunValue(1, Len(source))
    /\ (AllOf("-") /\ RanOnZeroCell) =>
            /\ pointer = InitPointer
            /\ tape[pointer + 1] = RunValue(-1, Len(source))

\* 257 `-` compiled to Add(255) and run on a zero cell, which now holds 255
C25_Witness ==
    /\ AllOf("-")
    /\ Len(source) = 257
    /\ RanOnZeroCell
    /\ ops = <<Add(255)>>
    /\ tape[pointer + 1] = 255

\* compile has returned for the variant with inserted bytes
VariantDone == base.phase = "variant" /\ cresult # "compiling"

\* C26: inserting or removing bytes other than the eight commands anywhere
\* in a source changes neither the ops returned by compile nor whether and
\* with which error kind compile fails; compaction and loop recognition
\* work across interleaved comment bytes.
C26_CommentsIgnored ==
    VariantDone => (ops = base.ops /\ cresult = base.cresult)

\* `,[->+<]` with a newline before, between and after all of its bytes
\* still compiles to In, Mul(1, 1), Set(0)
C26_Witness ==
    /\ VariantDone
    /\ cresult = "Ok"
    /\ source = Interleave(base.source, "\n")
    /\ ops = <<In, Mul(1, 1), Set(0)>>

IsNonBlank(ln) == ln.kind # "blank"

\* the non-blank lines among the first n lines of standard input
NonBlankUpTo(n) == SelectSeq(SubSeq(stdin, 1, n), IsNonBlank)

\* run_batch has returned, or the process has died in a panic
BatchEnded ==
    /\ cresult = "Ok"
    /\ \/ lineno = Len(stdin) /\ eresult = "idle"
       \/ eresult = "Panic"

\* C27: in batch mode one response line is emitted for every non-blank
\* request line and none for blank lines, in the order of the requests,
\* each response carrying the id of its request (absent when the request
\* has none or is not valid JSON).
C27_OneResponsePerRequest ==
    /\ Len(stdout) = Len(NonBlankUpTo(lineno))
    /\ \A k \in 1..Len(stdout) :
           k <= Len(NonBlankUpTo(lineno)) => stdout[k].id = NonBlankUpTo(lineno)[k].id
    /\ BatchEnded => Len(stdout) = Len(NonBlankUpTo(Len(stdin)))

\* the request whose response is stdout[k]
RequestOf(k) == NonBlankUpTo(Len(stdin))[k]

\* C28: a failing request (invalid JSON or a runtime error) yields a
\* failure response and processing continues with the next line; the
\* response to a request depends only on that request and on the base
\* configuration: each run starts from the request's own tape (or a fresh
\* zero tape), pointer and input, and nothing is carried over.
C28_RequestsIndependent ==
    /\ BatchEnded => lineno = Len(stdin)
    /\ \A k \in 1..Len(stdout) :
           (RequestOf(k).kind \in {"invalid", "unreadable"}) => ~stdout[k].ok
    /\ \A j, k \in 1..Len(stdout) :
           RequestOf(j) = RequestOf(k) => stdout[j] = stdout[k]
    /\ (eresult = "running" /\ ip = 0 /\ opcount = 0 /\ lineno < Len(stdin)) =>
           /\ tape = (IF CurLine.tape.some THEN CurLine.tape.v
                      ELSE ZeroTape(RequestConfig(CurLine).tape_size))
           /\ pointer = (IF CurLine.pointer.some THEN CurLine.pointer.v ELSE 0)
           /\ input = Bytes(IF CurLine.input.some THEN CurLine.input.v ELSE <<>>)
           /\ output = VecWriter

\* a successful response has just been written
OkWritten == Len(stdout') = Len(stdout) + 1 /\ stdout'[Len(stdout')].ok

\* C29: the tape field of a successful batch response is the longest
\* prefix of the final tape that does not end in a zero byte: a prefix of
\* the final tape whose last byte (if any) is nonzero, every trimmed byte
\* being zero; an all-zero tape is reported as the empty array.
C29_TapeTrimmed ==
    [][OkWritten =>
        LET t == stdout'[Len(stdout')].tape IN
        /\ Len(t) <= Len(tape)
        /\ t = SubSeq(tape, 1, Len(t))
        /\ Len(t) > 0 => t[Len(t)] # 0
        /\ \A k \in (Len(t) + 1)..Len(tape) : tape[k] = 0
        /\ (\A k \in 1..Len(tape) : tape[k] = 0) => t = <<>>]_vars

\* one response whose tape lost its trailing zeros but kept the zero inside,
\* and one for an all-zero tape
C29_Witness ==
    /\ \E k \in 1..Len(stdout) : stdout[k].ok /\ stdout[k].tape = <<5, 0, 7>>
    /\ \E k \in 1..Len(stdout) : stdout[k].ok /\ stdout[k].tape = <<>>

(***************************************************************************)
(* Direct interpretation of the source, one command at a time: the         *)
(* reference the compiled program is compared with.                        *)
(***************************************************************************)
\* 1-based position of the `[` matching the `]` at position q (0 if none)
OpenOf(src, q) ==
    LET S == {p \in 1..(q - 1) : src[p] = "[" /\ q \in MatchOf(src, p)}
    IN IF S = {} THEN 0 ELSE CHOOSE p \in S : TRUE

\* 1-based position of the `]` matching the `[` at position p (0 if none)
CloseOf(src, p) ==
    IF MatchOf(src, p) = {} THEN 0 ELSE CHOOSE q \in MatchOf(src, p) : TRUE

\* the interpreter before its first command
DirectStart(t, p, inp) ==
    [pc |-> 1, tape |-> t, pointer |-> p, inp |-> inp, out |-> <<>>, res |-> "running"]

\* one command of the source executed on the interpreter state st; the
\* pointer is 0-based, cells wrap, `<` and `>` are bounds-checked against
\* the tape, `,` follows the EOF policy of cfg and `.` appends to the
\* output when there is one
DirectStep(src, cfg, hasOut, st) ==
    IF st.res # "running" THEN st
    ELSE IF st.pc > Len(src) THEN [st EXCEPT !.res = "Ok"]
    ELSE
        LET c == src[st.pc]
            cell == st.tape[st.pointer + 1]
            next == [st EXCEPT !.pc = @ + 1]
        IN CASE c = ">" ->
                    IF st.pointer + 1 >= Len(st.tape)
                    THEN [st EXCEPT !.res = "PointerOverflow"]
                    ELSE [next EXCEPT !.pointer = @ + 1]
             [] c = "<" ->
                    IF st.pointer = 0
                    THEN [st EXCEPT !.res = "PointerUnderflow"]
                    ELSE [next EXCEPT !.pointer = @ - 1]
             [] c = "+" -> [next EXCEPT !.tape[st.pointer + 1] = (cell + 1) % ByteMod]
             [] c = "-" -> [next EXCEPT !.tape[st.pointer + 1] = (cell + 255) % ByteMod]
             [] c = "." -> IF hasOut THEN [next EXCEPT !.out = Append(@, cell)] ELSE next
             [] c = "," ->
                    IF st.inp.kind = "none" THEN next
                    ELSE IF st.inp.data = <<>> THEN
                        IF cfg.eof_behavior = "Unchanged" THEN next
                        ELSE [next EXCEPT !.tape[st.pointer + 1] =
                                             IF cfg.eof_behavior = "Zero" THEN 0 ELSE 255]
                    ELSE [next EXCEPT !.tape[st.pointer + 1] = Head(st.inp.data),
                                      !.inp.data = Tail(@)]
             [] c = "[" ->
                    IF CloseOf(src, st.pc) = 0 THEN [st EXCEPT !.res = "Unbalanced"]
                    ELSE IF cell = 0 THEN [st EXCEPT !.pc = CloseOf(src, st.pc) + 1]
                    ELSE next
             [] c = "]" ->
                    IF OpenOf(src, st.pc) = 0 THEN [st EXCEPT !.res = "Unbalanced"]
                    ELSE IF cell # 0 THEN [st EXCEPT !.pc = OpenOf(src, st.pc) + 1]
                    ELSE next
             [] OTHER -> next

\* n commands, or fewer when the interpreter stops before
RECURSIVE DirectSteps(_, _, _, _, _)
DirectSteps(src, cfg, hasOut, st, n) ==
    IF st.res # "running" \/ n = 0 THEN st
    ELSE IF n = 1 THEN DirectStep(src, cfg, hasOut, st)
    ELSE DirectSteps(src, cfg, hasOut,
                     DirectSteps(src, cfg, hasOut, st, n \div 2), n - (n \div 2))

\* the direct interpretation of the compiled source on the arguments of
\* the execution in progress; res is "running" when it needs more than
\* MaxSteps commands (and one more step to see the end of the source)
Direct ==
    DirectSteps(source, args.config, args.output.kind # "none",
                DirectStart(InitTape, InitPointer, args.input), MaxSteps + 1)

\* an execution the comparison is about: the start is in range, there is
\* no op_limit, and the streams do not fail
Comparable ==
    /\ cresult = "Ok"
    /\ eresult # "idle"
    /\ StartInRange
    /\ ~OpLimit.some
    /\ args.input.kind \in {"none", "bytes"}
    /\ args.output.kind \in {"none", "vec"}

\* C30: if the direct one-command-at-a-time interpretation of the source
\* terminates without error, the compiled program run without op_limit on
\* the same tape, pointer and input also terminates without error, with
\* the same final tape, pointer and output bytes.
C30_SemanticsPreserved ==
    (Comparable /\ (Finished \/ opcount >= MaxSteps)) =>
        (Direct.res = "Ok" =>
            /\ eresult = "Ok"
            /\ tape = Direct.tape
            /\ pointer = Direct.pointer
            /\ output.data = Direct.out)

(***************************************************************************)
(* push_and_compact called on its own: ops and spans are built by up to    *)
(* MaxPushes calls, each with an op of PushOps.                            *)
(***************************************************************************)
\* number of calls of push_and_compact in a row
MaxPushes == 3

\* the ops compile hands to push_and_compact (Add(1), Add(255), Move(1),
\* Move(-1), Set(0)), the extreme values of their fields, and ops that
\* never compact
PushOps ==
    { Add(1), Add(255), Add(128), Move(1), Move(-1), Move(I32Max), Move(I32Min),
      Set(0), Set(7), Out, Open(0), Mul(1, 2), Scan(1) }

NoPush == [tag |-> "none", a |-> 0, b |-> 0]

\* push_and_compact(&mut ops, &mut spans, op, span), the span being that of
\* the i-th byte of a one-line source
PushOp ==
    /\ cresult = "compiling"
    /\ i < MaxPushes
    /\ \E op \in PushOps :
        LET r == PushAndCompact(ops, spans, op, Span(i, i + 1, 1, i + 1)) IN
        /\ ops' = r.ops
        /\ spans' = r.spans
        /\ pushed' = op
    /\ i' = i + 1
    /\ UNCHANGED <<source, loop_stack, line, col, cresult, cerr, first_skip>>
    /\ UNCHANGED <<evars, other, alone, base, stdin, lineno, stdout>>

InitPush == InitCompileOf({<<>>}) /\ InitExec /\ InitSingle

NextPush == PushOp

SpecPush == InitPush /\ [][NextPush]_vars

\* a + b does not fit a signed 32-bit integer
OutsideI32(a, b) ==
    \/ (a > 0 /\ b > 0 /\ a > I32Max - b)
    \/ (a < 0 /\ b < 0 /\ a < I32Min - b)

\* a call of push_and_compact has just been made on a non-empty ops whose
\* tail has tag t, with an op of tag u
Pushed(t, u) ==
    /\ i' = i + 1
    /\ Len(ops) > 0
    /\ Last(ops).tag = t
    /\ pushed'.tag = u

\* the ops after a call that replaces the tail by op
TailBecomes(op) == ops' = Front(ops) \o <<op>>

\* the ops after a call that removes the tail
TailRemoved == ops' = Front(ops)

\* the pairs of tags the compaction table names
TablePairs ==
    { <<"Add", "Add">>, <<"Move", "Move">>, <<"Set", "Set">>,
      <<"Set", "Add">>, <<"Add", "Set">> }

\* C31: push_and_compact applies exactly the compaction table to the tail
\* op: Add(a)+Add(b) gives Add((a+b) mod 256) or removes the tail when the
\* sum is 0; Move(a)+Move(b) (sum within 32 bits) gives Move(a+b) or removes
\* the tail when the sum is 0; Set(_)+Set(b) gives Set(b); Set(a)+Add(b)
\* gives Set((a+b) mod 256); Add(_)+Set(b) gives Set(b); for every other
\* pair, and on empty ops, the new op is appended; in every case the ops
\* before the tail are untouched.
C31_CompactionTable ==
    [][(i' = i + 1) =>
        /\ Pushed("Add", "Add") =>
              IF (Last(ops).a + pushed'.a) % ByteMod = 0
              THEN TailRemoved
              ELSE TailBecomes(Add((Last(ops).a + pushed'.a) % ByteMod))
        /\ (Pushed("Move", "Move") /\ ~OutsideI32(Last(ops).a, pushed'.a)) =>
              IF Last(ops).a + pushed'.a = 0
              THEN TailRemoved
              ELSE TailBecomes(Move(Last(ops).a + pushed'.a))
        /\ Pushed("Set", "Set") => TailBecomes(Set(pushed'.a))
        /\ Pushed("Set", "Add") =>
              TailBecomes(Set((Last(ops).a + pushed'.a) % ByteMod))
        /\ Pushed("Add", "Set") => TailBecomes(Set(pushed'.a))
        /\ (Len(ops) = 0 \/ <<Last(ops).tag, pushed'.tag>> \notin TablePairs) =>
              ops' = Append(ops, pushed')
        /\ Len(ops') >= Len(ops) - 1
        /\ \A k \in 1..(Len(ops) - 1) : ops'[k] = ops[k]
        /\ Len(spans') = Len(ops')]_vars

\* the three calls Set(0), Add(1), Add(128) have left the single op Set(129)
C31_Witness ==
    /\ i = 3
    /\ ops = <<Set(129)>>
    /\ pushed = Add(128)

\* C33: when the tail is Move(a) and Move(b) is pushed with a+b outside
\* the signed 32-bit range, push_and_compact leaves Move(a) as it is and
\* appends Move(b) as a separate op with its own span: the sum is neither
\* wrapped nor saturated.
C33_MoveOverflowKeepsBoth ==
    [][(Pushed("Move", "Move") /\ OutsideI32(Last(ops).a, pushed'.a)) =>
        /\ ops' = Append(ops, Move(pushed'.a))
        /\ spans' = Append(spans, Span(i, i + 1, 1, i + 1))]_vars

\* Move(i32::MAX) followed by Move(1), or Move(i32::MIN) followed by
\* Move(-1), are kept as two ops
C33_Witness ==
    /\ i >= 2
    /\ Len(ops) >= 2
    /\ pushed.tag = "Move"
    /\ \/ ops[Len(ops) - 1] = Move(I32Max) /\ Last(ops) = Move(1)
       \/ ops[Len(ops) - 1] = Move(I32Min) /\ Last(ops) = Move(-1)

\* two adjacent ops that push_and_compact would have merged
Mergeable(x, y) ==
    \/ <<x.tag, y.tag>> \in {<<"Add", "Add">>, <<"Set", "Set">>,
                             <<"Set", "Add">>, <<"Add", "Set">>}
    \/ x.tag = "Move" /\ y.tag = "Move" /\ ~OutsideI32(x.a, y.a)

FullyCompacted(o) == \A k \in 1..(Len(o) - 1) : ~Mergeable(o[k], o[k + 1])

\* C32: after every source byte processed by compile the ops are fully
\* compacted: no two adjacent ops are Add,Add or Set,Set or Set,Add or
\* Add,Set, and no two adjacent ops are Move,Move unless their sum
\* overflows signed 32-bit; also where a cancelled op was popped or a
\* recognized loop was truncated and replaced.
C32_FullyCompacted == FullyCompacted(ops)

\* `[-]><+`: the Move(1) is cancelled and popped, which makes the Set(0) of
\* the rewritten loop the tail again, and the Add(1) merges into it
C32_Witness ==
    /\ source = <<"[", "-", "]", ">", "<", "+">>
    /\ cresult = "Ok"
    /\ ops = <<Set(1)>>

\* every op of the program takes effect whenever it is executed: Add(n)
\* with n # 0 modifies the cell and Move(d) with d # 0 moves the pointer
EffectfulOnly ==
    /\ Len(ops) > 0
    /\ \A k \in 1..Len(ops) : ops[k].tag \in {"Add", "Move"} /\ ops[k].a # 0

\* C34: op_limit = L caps the number of instructions that take effect: in
\* no execution do more than L instructions modify the tape, move the
\* pointer, consume an input byte or write an output byte before
\* OperationLimit is reported.  In a program made of Add and Move only,
\* every completed instruction has taken effect, so opcount is the number
\* of instructions that took effect.
C34_LimitCapsEffects ==
    (cresult = "Ok" /\ eresult # "idle" /\ StartInRange /\ EffectfulOnly /\ OpLimit.some) =>
        opcount <= OpLimit.v

\* 1-based positions of the `[` bytes of src that ordinary bracket
\* matching leaves without a `]`
UnmatchedOpens(src) == {p \in 1..Len(src) : src[p] = "[" /\ MatchOf(src, p) = {}}

\* C35: when compile returns UnmatchedOpen, the span's start/end are the
\* byte offsets of the most recently opened `[` that is still pending on
\* the loop stack at the end of the input, not of the first unmatched `[`:
\* the reported byte is a `[` without a matching `]`, every loop left
\* pending was opened before it, and when no dead loop was skipped it is
\* the last unmatched `[` of the source.
C35_InnermostOpenReported ==
    /\ [](cresult = "UnmatchedOpen" =>
            /\ cerr.end = cerr.start + 1
            /\ cerr.start + 1 \in UnmatchedOpens(source)
            /\ \A k \in 1..Len(loop_stack) : loop_stack[k].span.start < cerr.start
            /\ first_skip = 0 => cerr.start + 1 = MaxOf(UnmatchedOpens(source)))
    /\ [][(cresult = "compiling" /\ cresult' = "UnmatchedOpen") =>
            /\ i >= Len(source)
            /\ cerr' = Last(loop_stack).span]_vars

\* two loops were pending at the end of the input and the inner one is
\* reported
C35_Witness ==
    /\ cresult = "UnmatchedOpen"
    /\ Len(loop_stack) > 0
    /\ cerr.start > loop_stack[1].span.start
    /\ first_skip = 0

(***************************************************************************)
(* execute called on a scan and on the loop it replaces, as the unit tests *)
(* of execute.rs call it: on ops and spans, without a source.              *)
(***************************************************************************)
\* largest |stride| enumerated besides i32::MIN
MaxStride == 3
\* longest tape of the scan runs
MaxScanTape == 4

Strides == ((-MaxStride)..MaxStride \ {0}) \cup {I32Min}

ScanTapes == UNION {[1..n -> {0, 7}] : n \in 1..MaxScanTape}

\* Scan(s), and the general loop `[`, Move(s), `]` compile emits when the
\* scan recognizer is left out
ScanProgram(s) == <<Scan(s)>>
LoopProgram(s) == <<Open(2), Move(s), Close(0)>>

InitScan ==
    /\ source = <<>>
    /\ \E s \in Strides : ops \in {ScanProgram(s), LoopProgram(s)}
    /\ spans = [k \in 1..Len(ops) |-> Span(0, 1, 1, 1)]
    /\ loop_stack = <<>>
    /\ i = 0
    /\ line = 1
    /\ col = 1
    /\ cresult = "Ok"
    /\ cerr = NoSpan
    /\ first_skip = 0
    /\ tape \in ScanTapes
    /\ pointer \in 0..(Len(tape) - 1)
    /\ args = [config |-> [tape_size |-> TapeSize, op_limit |-> None,
                           eof_behavior |-> "Zero", flush_output |-> TRUE],
               tape |-> Some(tape), pointer |-> Some(pointer),
               input |-> NoInput, output |-> NoOutput]
    /\ ip = 0
    /\ opcount = 0
    /\ input = NoInput
    /\ output = NoOutput
    /\ eresult = "running"
    /\ eerr = [span |-> NoSpan, pointer |-> 0, tape_len |-> 0]
    /\ InitSingle

NextScan ==
    \/ ExecScan
    \/ ExecOpen
    \/ ExecMove
    \/ ExecClose
    \/ ExecFinish

SpecScan == InitScan /\ [][NextScan]_vars

\* the stride of the program under execution
Stride == IF ops[1].tag = "Scan" THEN ops[1].a ELSE ops[2].a

\* the loop Open, Move(s), Close taken one iteration at a time: while the
\* cell is not 0 the pointer moves by s under the bounds check of Move
RECURSIVE LoopOutcome(_, _, _)
LoopOutcome(t, p, s) ==
    IF t[p + 1] = 0 THEN [kind |-> "Ok", pointer |-> p, tape_len |-> 0]
    ELSE IF p + s < 0 THEN [kind |-> "PointerUnderflow", pointer |-> 0, tape_len |-> 0]
    ELSE IF p + s >= Len(t)
    THEN [kind |-> "PointerOverflow", pointer |-> p + s, tape_len |-> Len(t)]
    ELSE LoopOutcome(t, p + s, s)

\* what the finished execution reports
Reported ==
    [kind |-> eresult,
     pointer |-> IF eresult = "Ok" THEN pointer ELSE eerr.pointer,
     tape_len |-> eerr.tape_len]

\* C36: for every nonzero stride s, tape and in-range pointer, executing
\* Scan(s) gives the same outcome as executing the loop Open, Move(s),
\* Close it replaces: the same final pointer and an unchanged tape on
\* success, and on failure the same error kind with the same reported
\* pointer and tape_len.
C36_ScanEqualsLoop ==
    Finished =>
        /\ Reported = LoopOutcome(InitTape, InitPointer, Stride)
        /\ tape = InitTape

\* the op before the instruction pointer is one after which compile skips
\* a loop
AfterZeroingOp ==
    /\ ip > 0
    /\ ip <= Len(ops)
    /\ \/ ops[ip] = Set(0)
       \/ ops[ip].tag = "Scan"
       \/ ops[ip].tag = "Close"

\* C37: dead-loop elision is sound: whenever the instruction pointer
\* reaches the position right after a Set(0), a Scan or a Close (by falling
\* through the Close or by the jump of its Open), the current cell is 0, so
\* a loop elided at that source position would never have been entered.
C37_DeadLoopSound ==
    (cresult = "Ok" /\ eresult \in {"running", "Ok"} /\ StartInRange /\ AfterZeroingOp) =>
        tape[pointer + 1] = 0

\* the position after the Set(0) of a cleared loop, where compile elided
\* a loop, reached after an input byte had made the cell nonzero
C37_Witness ==
    /\ cresult = "Ok"
    /\ eresult = "running"
    /\ StartInRange
    /\ AfterZeroingOp
    /\ ops[ip] = Set(0)
    /\ first_skip > 0
    /\ Len(input.data) < Len(args.input.data)

\* C38: for every initial tape and initial pointer that Program::run
\* accepts from the caller, including a pointer >= the tape length and an
\* empty tape, execution ends with an ExecutionResult or with one of the
\* four ExecutionError values and never reads or writes the tape at an
\* index outside 0..tape.len()-1.
C38_NoIndexOutOfRange == eresult \in {"idle", "running", "Ok"} \cup ExecErrors

(***************************************************************************)
(* Termination: the compile and run specification over the sources of the  *)
(* tests, with the loop of execute running on until it returns.            *)
(***************************************************************************)
\* one iteration of `while ip < ops.len()`, or the return after it
ExecStep ==
    \/ ExecAdd
    \/ ExecMove
    \/ ExecSet
    \/ ExecMul
    \/ ExecScan
    \/ ExecOpen
    \/ ExecClose
    \/ ExecIn
    \/ ExecOut
    \/ ExecFinish

InitTerm == InitCompileOf(TestSources) /\ InitExec /\ InitSingle

\* execute is a sequential loop on the caller's thread: nothing suspends it
\* between two instructions, and the modelled readers and writers return
SpecTerm == InitTerm /\ [][Next]_vars /\ WF_vars(ExecStep)

\* an execution under an operation limit, started in range
Limited == eresult # "idle" /\ OpLimit.some /\ StartInRange

\* C39: for every compiled program, every initial tape with in-range
\* pointer and every finite input, an execution with op_limit = L
\* terminates, with a result or an error, after at most L+1 instruction
\* executions; every single instruction terminates, Scan included, whose
\* stride is never 0.
C39_TerminatesUnderLimit ==
    /\ [](Limited =>
            /\ opcount <= OpLimit.v + 1
            /\ opcount = OpLimit.v + 1 => Finished
            /\ eresult # "Hang")
    /\ [](\A k \in 1..Len(ops) : ops[k].tag = "Scan" => ops[k].a # 0)
    /\ ((Limited /\ eresult = "running") ~> Finished)

\* the endless loop of `+[]` stopped by the limit of 100 after 101
\* instructions
C39_Witness ==
    /\ source = <<"+", "[", "]">>
    /\ Limited
    /\ OpLimit.v = 100
    /\ opcount = 101
    /\ eresult = "OperationLimit"

\* C40: after every source byte processed by compile the loop stack is
\* consistent with ops: the recorded indices are strictly increasing from
\* bottom to top, each is < ops.len(), and ops at each recorded index is
\* the placeholder Open(0); hence on `]` the body slice ops[start+1..] and
\* the truncation to start are within range.
C40_LoopStackConsistent ==
    /\ \A k \in 1..Len(loop_stack) :
          /\ loop_stack[k].index < Len(ops)
          /\ ops[loop_stack[k].index + 1] = Open(0)
          /\ k > 1 => loop_stack[k - 1].index < loop_stack[k].index
    /\ (Compiling /\ Cur = "]" /\ Len(loop_stack) > 0) =>
          /\ LoopStart + 1 <= Len(ops)
          /\ LoopStart <= Len(spans)
    /\ Len(spans) = Len(ops)

\* two loops are open, and the ops pushed after the inner `[` have been
\* cancelled and popped again, so that its placeholder is the tail
C40_Witness ==
    /\ Len(loop_stack) = 2
    /\ Last(loop_stack).index = Len(ops) - 1
    /\ i > Last(loop_stack).span.start + 2
    /\ loop_stack[1].index = 0

====
